---- MODULE Spec2Model ----
(***************************************************************************)
(* StyleSync: reconciliation of a derived output tree of images with a     *)
(* source folder (ajayagr/style-sync).  Two flows are modelled: the CLI    *)
(* run of main.py over LocalStorageProvider and the HTTP function of       *)
(* function_app.py over AzureBlobProvider.                                  *)
(*                                                                         *)
(* Python strings are sequences of one-character strings, so that          *)
(* startswith, lstrip, rstrip, replace, lower and the path arithmetic of   *)
(* pathlib are computed as the code computes them.                         *)
(***************************************************************************)
EXTENDS Integers, Sequences, FiniteSets, TLC

(* ------------------------------ bounds -------------------------------- *)

\* at most this many entries in all among the source folder's entries, the
\* output folder's files before the run and the configured styles
MaxEntries == 3
\* at most this many operations of one run deviate from the default outcome
\* (an I/O call raising, a backend answering anything but an inline image,
\* credentials missing from the environment)
MaxDeviations == 1

(* ------------------------------ strings ------------------------------- *)

Chars ==
    << " ", ".", "/", "0", "1", "2", "3", "4", "5", "6", "7", "8", "9", ":",
       "A", "B", "C", "D", "E", "F", "G", "H", "I", "J", "K", "L", "M",
       "N", "O", "P", "Q", "R", "S", "T", "U", "V", "W", "X", "Y", "Z", "_",
       "a", "b", "c", "d", "e", "f", "g", "h", "i", "j", "k", "l", "m",
       "n", "o", "p", "q", "r", "s", "t", "u", "v", "w", "x", "y", "z" >>

RankOf == [c \in {Chars[i] : i \in 1..Len(Chars)} |-> CHOOSE i \in 1..Len(Chars) : Chars[i] = c]

Rank(c) == RankOf[c]

IsUpper(c) == Rank(c) >= Rank("A") /\ Rank(c) <= Rank("Z")

\* str.lower() on one character
LowerChar(c) == IF IsUpper(c) THEN Chars[Rank(c) - Rank("A") + Rank("a")] ELSE c

\* str.lower()
Lower(s) == [i \in 1..Len(s) |-> LowerChar(s[i])]

\* str.replace(a, b) for one-character a and b
Replace(s, a, b) == [i \in 1..Len(s) |-> IF s[i] = a THEN b ELSE s[i]]

\* str.startswith / str.endswith
StartsWith(s, p) == Len(p) <= Len(s) /\ SubSeq(s, 1, Len(p)) = p

EndsWith(s, p) == Len(p) <= Len(s) /\ SubSeq(s, Len(s) - Len(p) + 1, Len(s)) = p

\* str.lstrip(c) / str.rstrip(c): every leading / trailing c is removed
RECURSIVE LStrip(_, _)
LStrip(s, c) == IF s # <<>> /\ Head(s) = c THEN LStrip(Tail(s), c) ELSE s

RECURSIVE RStrip(_, _)
RStrip(s, c) ==
    IF s # <<>> /\ s[Len(s)] = c THEN RStrip(SubSeq(s, 1, Len(s) - 1), c) ELSE s

\* str(n) for a natural number
RECURSIVE IntStr(_)
IntStr(n) ==
    IF n < 10 THEN << Chars[Rank("0") + n] >>
    ELSE IntStr(n \div 10) \o << Chars[Rank("0") + (n % 10)] >>

\* lexicographic order on strings, the order in which a listing is returned
RECURSIVE StrLess(_, _)
StrLess(s, t) ==
    IF s = <<>> THEN t # <<>>
    ELSE IF t = <<>> THEN FALSE
    ELSE IF Head(s) = Head(t) THEN StrLess(Tail(s), Tail(t))
    ELSE Rank(Head(s)) < Rank(Head(t))

RECURSIVE Sorted(_)
Sorted(S) ==
    IF S = {} THEN <<>>
    ELSE LET m == CHOOSE x \in S : \A y \in S \ {x} : StrLess(x, y)
         IN  <<m>> \o Sorted(S \ {m})

Range(f) == {f[i] : i \in DOMAIN f}

(* ------------------------------- paths -------------------------------- *)

\* the components of a path string, empty components dropped (pathlib)
RECURSIVE Split(_, _)
Split(s, cur) ==
    IF s = <<>> THEN (IF cur = <<>> THEN <<>> ELSE <<cur>>)
    ELSE IF Head(s) = "/"
         THEN (IF cur = <<>> THEN <<>> ELSE <<cur>>) \o Split(Tail(s), <<>>)
         ELSE Split(Tail(s), Append(cur, Head(s)))

RECURSIVE JoinAbs(_)
JoinAbs(parts) ==
    IF parts = <<>> THEN <<>> ELSE <<"/">> \o Head(parts) \o JoinAbs(Tail(parts))

\* a path string that pathlib leaves as it is: no empty component and no
\* trailing "/"
Normal(s) ==
    /\ s # <<>> /\ s[Len(s)] # "/"
    /\ \A i \in 1..(Len(s) - 1) : ~(s[i] = "/" /\ s[i + 1] = "/")

\* str(Path(s)) of an absolute path
PathStr(s) ==
    IF Normal(s) THEN s
    ELSE LET p == Split(s, <<>>) IN IF p = <<>> THEN <<"/">> ELSE JoinAbs(p)

\* the position of the last "/" at or before position i, 0 when there is none
RECURSIVE LastSlash(_, _)
LastSlash(p, i) == IF i = 0 \/ p[i] = "/" THEN i ELSE LastSlash(p, i - 1)

\* Path.parent and Path.name of a normalised absolute path
Parent(p) ==
    LET i == LastSlash(p, Len(p))
    IN  IF i <= 1 THEN <<"/">> ELSE SubSeq(p, 1, i - 1)

BaseName(p) == SubSeq(p, LastSlash(p, Len(p)) + 1, Len(p))

RECURSIVE Ancestors(_)
Ancestors(p) == IF p = <<"/">> THEN {} ELSE {Parent(p)} \cup Ancestors(Parent(p))

(* ----------------------------- file store ----------------------------- *)

\* A store is [files: path -> content, dirs: set of paths].  The CLI's source
\* and output providers are two LocalStorageProvider objects over the one
\* filesystem; the HTTP function reads and writes one blob container.

Without(f, S) == [p \in (DOMAIN f) \ S |-> f[p]]

\* the working directory, Path(".").resolve()
Cwd == <<"/", "r">>

IsAbsolute(path) == path # <<>> /\ Head(path) = "/"

LocalResolve(path) ==
    IF IsAbsolute(path) THEN PathStr(path) ELSE PathStr(Cwd \o <<"/">> \o path)

LocalExists(st, path) ==
    LET t == LocalResolve(path)
    IN  t = <<"/">> \/ t \in DOMAIN st.files \/ t \in st.dirs

FileItem(name, is_dir, path) == [name |-> name, is_dir |-> is_dir, path |-> path]

\* a listing that descends into the folders below path
LocalListFiles_Recursive(st, path) ==
    LET t == LocalResolve(path)
        kids == {p \in (DOMAIN st.files) \cup st.dirs : p # t /\ t \in Ancestors(p)}
        order == Sorted(kids)
    IN  IF ~LocalExists(st, path) THEN <<>>
        ELSE [i \in 1..Len(order) |->
                FileItem(BaseName(order[i]), order[i] \in st.dirs, order[i])]

\* a listing that falls back to the folder above when the path is absent
LocalListFiles_Above(st, path) ==
    LET t == IF LocalExists(st, path) THEN LocalResolve(path)
             ELSE Parent(LocalResolve(path))
        kids == {p \in (DOMAIN st.files) \cup st.dirs : p # <<"/">> /\ Parent(p) = t}
        order == Sorted(kids)
    IN  [i \in 1..Len(order) |->
            FileItem(BaseName(order[i]), order[i] \in st.dirs, order[i])]

LocalListFiles(st, path) ==
    LET t == LocalResolve(path)
        kids == {p \in (DOMAIN st.files) \cup st.dirs : p # <<"/">> /\ Parent(p) = t}
        order == Sorted(kids)
    IN  IF ~LocalExists(st, path) THEN <<>>
        ELSE [i \in 1..Len(order) |->
                FileItem(BaseName(order[i]), order[i] \in st.dirs, order[i])]

LocalWriteFile(st, path, data) ==
    LET t == LocalResolve(path)
    IN  [files |-> (t :> data) @@ st.files, dirs |-> st.dirs \cup Ancestors(t)]

\* a delete_file that clears the folder the path lies in
LocalDeleteFile_Siblings(st, path) ==
    LET t == LocalResolve(path)
    IN  [st EXCEPT !.files = Without(st.files,
                                     {p \in DOMAIN st.files : Parent(p) = Parent(t)})]

LocalDeleteFile(st, path) ==
    LET t == LocalResolve(path)
        below(p) == t \in Ancestors(p)
    IN  IF t \in st.dirs
        THEN [files |-> Without(st.files, {p \in DOMAIN st.files : below(p)}),
              dirs |-> {d \in st.dirs : d # t /\ ~below(d)}]
        ELSE IF t \in DOMAIN st.files
        THEN [st EXCEPT !.files = Without(st.files, {t})]
        ELSE st

LocalMkdir(st, path) ==
    LET t == LocalResolve(path)
    IN  [st EXCEPT !.dirs = st.dirs \cup {t} \cup Ancestors(t)]

\* b.name.rsplit("/", 1)[-1]
RECURSIVE LastSegment(_)
LastSegment(s) ==
    IF \E i \in 1..Len(s) : s[i] = "/"
    THEN LastSegment(SubSeq(s, (CHOOSE i \in 1..Len(s) : s[i] = "/") + 1, Len(s)))
    ELSE s

BlobExists(st, path) == path = <<>> \/ path \in DOMAIN st.files

BlobListFiles(st, prefix) ==
    LET order == Sorted({b \in DOMAIN st.files : StartsWith(b, prefix)})
    IN  [i \in 1..Len(order) |-> FileItem(LastSegment(order[i]), FALSE, order[i])]

BlobWriteFile(st, path, data) == [st EXCEPT !.files = (path :> data) @@ st.files]

\* the provider of a flow: LocalStorageProvider for "cli", AzureBlobProvider for "http"
Exists(flow, st, path) ==
    IF flow = "cli" THEN LocalExists(st, path) ELSE BlobExists(st, path)

ListFiles(flow, st, path) ==
    IF flow = "cli" THEN LocalListFiles(st, path) ELSE BlobListFiles(st, path)

WriteFile(flow, st, path, data) ==
    IF flow = "cli" THEN LocalWriteFile(st, path, data) ELSE BlobWriteFile(st, path, data)

\* both providers read the stored bytes of an existing file
ReadFile(flow, st, path) ==
    IF flow = "cli" THEN st.files[LocalResolve(path)] ELSE st.files[path]

(* ------------------------------- sync.py ------------------------------ *)

valid_extensions ==
    { <<".", "j", "p", "g">>, <<".", "j", "p", "e", "g">>,
      <<".", "p", "n", "g">>, <<".", "w", "e", "b", "p">> }

\* an extension test that does not lower-case the name
IsValidImage_CaseSensitive(item) ==
    ~item.is_dir /\ \E ext \in valid_extensions : EndsWith(item.name, ext)

IsValidImage(item) ==
    ~item.is_dir /\ \E ext \in valid_extensions : EndsWith(Lower(item.name), ext)

RECURSIVE Filter(_, _)
Filter(items, keep) ==
    IF items = <<>> THEN <<>>
    ELSE (IF Head(items) \in keep THEN <<Head(items)>> ELSE <<>>)
         \o Filter(Tail(items), keep)

\* sync.get_valid_images checks provider.exists first; function_app.get_valid_images
\* lists without the check
get_valid_images(flow, st, source_dir) ==
    IF flow = "cli" /\ ~Exists(flow, st, source_dir) THEN <<>>
    ELSE LET listing == ListFiles(flow, st, source_dir)
         IN  Filter(listing, {it \in Range(listing) : IsValidImage(it)})

\* a Python dict is a sequence of [key, val] in insertion order; assigning to
\* a key already present replaces the value and keeps the position
HasKey(d, k) == \E i \in 1..Len(d) : d[i].key = k

Lookup(d, k) == d[CHOOSE i \in 1..Len(d) : d[i].key = k].val

\* an assignment that appends a pair even when the key is present already
DictSet_Append(d, k, v) == Append(d, [key |-> k, val |-> v])

\* an assignment that leaves the value of a key already present
DictSet_KeepFirst(d, k, v) ==
    IF HasKey(d, k) THEN d ELSE Append(d, [key |-> k, val |-> v])

DictSet(d, k, v) ==
    IF HasKey(d, k)
    THEN [i \in 1..Len(d) |-> IF d[i].key = k THEN [key |-> k, val |-> v] ELSE d[i]]
    ELSE Append(d, [key |-> k, val |-> v])

Keys(d) == {d[i].key : i \in 1..Len(d)}

\* style = None of an original entry
None == [none |-> TRUE]

S_original == <<"o", "r", "i", "g", "i", "n", "a", "l">>

S_style_ == <<"s", "t", "y", "l", "e", "_">>

\* style.get('name', f"style_{style['index']}"): the default is evaluated
\* before the lookup, so a style without 'index' raises KeyError even when it
\* has a name
StyleNameRaises(style) == "index" \notin DOMAIN style

StyleName(style) ==
    IF "name" \in DOMAIN style THEN style.name ELSE S_style_ \o IntStr(style.index)

\* style_name.replace(' ', '_').lower()
StyleFolder(style) == Lower(Replace(StyleName(style), " ", "_"))

OriginalKey(item) == S_original \o <<"/">> \o item.name

\* a key that leaves the file name out
StyleKey_FolderOnly(style, item) == StyleFolder(style)

StyleKey(style, item) == StyleFolder(style) \o <<"/">> \o item.name

OriginalEntry(item) ==
    [source_item |-> item, style |-> None,
     output_path |-> OriginalKey(item), is_original |-> TRUE]

StyleEntry(style, item) ==
    [source_item |-> item, style |-> style,
     output_path |-> StyleKey(style, item), is_original |-> FALSE]

RECURSIVE AddStyles(_, _, _)
AddStyles(d, item, styles) ==
    IF styles = <<>> THEN d
    ELSE AddStyles(DictSet(d, StyleKey(Head(styles), item), StyleEntry(Head(styles), item)),
                   item, Tail(styles))

RECURSIVE MapItems(_, _, _)
MapItems(d, items, styles) ==
    IF items = <<>> THEN d
    ELSE MapItems(AddStyles(DictSet(d, OriginalKey(Head(items)), OriginalEntry(Head(items))),
                            Head(items), styles),
                  Tail(items), styles)

\* map_expected_state raises KeyError at the first style without 'index',
\* which it reaches when there is a valid image
MapRaises(flow, st, source_dir, styles) ==
    /\ get_valid_images(flow, st, source_dir) # <<>>
    /\ \E i \in 1..Len(styles) : StyleNameRaises(styles[i])

map_expected_state(flow, st, source_dir, styles) ==
    MapItems(<<>>, get_valid_images(flow, st, source_dir), styles)

\* rel_path of a listed item in clean_output
RelPath(item, output_dir) ==
    IF StartsWith(item.path, output_dir)
    THEN LStrip(SubSeq(item.path, Len(output_dir) + 1, Len(item.path)), "/")
    ELSE item.path

\* a delete_file that returns without removing anything
DeleteFile_Keeps(st, path) == st

\* delete_file of the output provider (main.py runs clean_output over
\* LocalStorageProvider)
DeleteFile(st, path) == LocalDeleteFile(st, path)

\* a loop of clean_output that gives up at the first delete_file that raises
RECURSIVE CleanLoop_Abort(_, _, _, _, _)
CleanLoop_Abort(acc, listing, expected_state, output_dir, failing) ==
    IF listing = <<>> THEN acc
    ELSE LET item == Head(listing)
             rel_path == RelPath(item, output_dir)
             skip == item.is_dir \/ HasKey(expected_state, rel_path)
             next ==
                 IF skip THEN acc
                 ELSE [st |-> DeleteFile(acc.st, item.path),
                       deleted |-> Append(acc.deleted, rel_path)]
         IN  IF ~skip /\ item.path \in failing THEN acc
             ELSE CleanLoop_Abort(next, Tail(listing), expected_state, output_dir, failing)

\* the loop of clean_output over a listing; delete_file raises for the paths
\* in failing, which the loop catches and skips
RECURSIVE CleanLoop(_, _, _, _, _)
CleanLoop(acc, listing, expected_state, output_dir, failing) ==
    IF listing = <<>> THEN acc
    ELSE LET item == Head(listing)
             rel_path == RelPath(item, output_dir)
             next ==
                 IF item.is_dir \/ HasKey(expected_state, rel_path) \/ item.path \in failing
                 THEN acc
                 ELSE [st |-> DeleteFile(acc.st, item.path),
                       deleted |-> Append(acc.deleted, rel_path)]
         IN  CleanLoop(next, Tail(listing), expected_state, output_dir, failing)

\* the items of the listing that clean_output tries to delete
Orphans(st, expected_state, output_dir) ==
    LET listing == LocalListFiles(st, output_dir)
    IN  {listing[i].path : i \in {j \in 1..Len(listing) :
            ~listing[j].is_dir /\ ~HasKey(expected_state, RelPath(listing[j], output_dir))}}

clean_output(st, expected_state, output_dir, failing) ==
    IF ~LocalExists(st, output_dir) THEN [st |-> st, deleted |-> <<>>]
    ELSE CleanLoop([st |-> st, deleted |-> <<>>], LocalListFiles(st, output_dir),
                   expected_state, output_dir, failing)

\* a target built without stripping the trailing slash of output_dir
TargetPath_NoStrip(output_dir, rel_path) == output_dir \o <<"/">> \o rel_path

\* f"{output_dir.rstrip('/')}/{rel_path}"
TargetPath(output_dir, rel_path) == RStrip(output_dir, "/") \o <<"/">> \o rel_path

RECURSIVE MissingLoop(_, _, _, _)
MissingLoop(flow, st, items, output_dir) ==
    IF items = <<>> THEN <<>>
    ELSE LET details == Head(items).val
             target_path == TargetPath(output_dir, Head(items).key)
         IN  (IF ~Exists(flow, st, target_path)
              THEN << [source_item |-> details.source_item, style |-> details.style,
                       output_path |-> details.output_path,
                       is_original |-> details.is_original,
                       full_target_path |-> target_path] >>
              ELSE <<>>)
             \o MissingLoop(flow, st, Tail(items), output_dir)

\* a diff that emits a task for every expected key, present or not
get_missing_files_All(flow, st, expected_state, output_dir) ==
    MissingLoop(flow, [files |-> << >>, dirs |-> {}], expected_state, output_dir)

get_missing_files(flow, st, expected_state, output_dir) ==
    MissingLoop(flow, st, expected_state, output_dir)

(* ----------------------------- generators ----------------------------- *)

\* what the generation backend does with one request
AzureResponses == {"image", "url_image", "url_silent", "empty", "http_error", "silent"}

StabilityResponses == {"image", "empty", "filtered", "malformed", "silent"}

\* the outcomes of a call of the generator
Data(info) == [kind |-> "result", data |-> TRUE, response_info |-> info]

NoData(info) == [kind |-> "result", data |-> FALSE, response_info |-> info]

Raises == [kind |-> "raise", data |-> FALSE, response_info |-> "ValueError"]

Hangs == [kind |-> "hang", data |-> FALSE, response_info |-> ""]

\* a blocking requests call: without timeout= it never returns when the peer
\* never answers; with it, requests raises Timeout
Request(has_timeout, answered, on_answer, on_timeout) ==
    IF answered THEN on_answer ELSE IF has_timeout THEN on_timeout ELSE Hangs

\* clients/azure.py: requests.post(endpoint, headers=, files=, data=) and
\* requests.get(item['url']) are called without timeout
AzureGenerator_process_image(env_ok, resp) ==
    IF ~env_ok THEN Raises
    ELSE Request(FALSE, resp # "silent",
            CASE resp = "image" -> Data("Status: 200")
              [] resp = "url_image" -> Data("Status: 200")
              [] resp = "url_silent" ->
                    Request(FALSE, FALSE, Data("Status: 200"), NoData("Exception"))
              [] resp = "http_error" -> NoData("HTTP Error")
              [] OTHER -> NoData("Error: Unexpected structure"),
            NoData("Exception"))

\* clients/stability.py: requests.post(url, headers=, files=, data=) without timeout;
\* a 200 answer without "artifacts" raises KeyError, which is not a RequestException
StabilityGenerator_process_image(env_ok, resp) ==
    IF ~env_ok THEN Raises
    ELSE Request(FALSE, resp # "silent",
            CASE resp = "image" -> Data("Status: 200")
              [] resp = "filtered" -> NoData("Blocked: Content Filter")
              [] resp = "malformed" -> Raises
              [] OTHER -> NoData("No artifacts returned"),
            NoData("Exception"))

\* function_app.process_image_azure: the post has timeout=120, the download of
\* a result URL has none; every exception becomes a result without data
process_image_azure(env_ok, resp) ==
    IF ~env_ok THEN NoData("AZURE_ENDPOINT_URL or AZURE_API_KEY not set")
    ELSE Request(TRUE, resp # "silent",
            CASE resp = "image" -> Data("")
              [] resp = "url_image" -> Data("")
              [] resp = "url_silent" -> Request(FALSE, FALSE, Data(""), NoData("timeout"))
              [] resp = "empty" -> NoData("No data in response")
              [] OTHER -> NoData("exception"),
            NoData("timeout"))

\* get_generator: the provider names it knows, compared in lower case
KnownProviders == {"azure", "stability"}

Responses(provider) == IF provider = "stability" THEN StabilityResponses ELSE AzureResponses

\* generator.process_image of the CLI run
process_image(provider, env_ok, resp) ==
    IF provider = "stability" THEN StabilityGenerator_process_image(env_ok, resp)
    ELSE AzureGenerator_process_image(env_ok, resp)

\* the bytes of a styled image: the backend's transform of (bytes, prompt)
Styled(data, prompt) == [kind |-> "styled", of |-> data.of, by |-> prompt]

(* ------------------------------- inputs ------------------------------- *)

\* entries that may lie in the source folder, relative to it: two images, a
\* text file, and an image inside a subfolder named like an image
SourcePool ==
    { <<"a", ".", "j", "p", "g">>, <<"b", ".", "P", "N", "G">>,
      <<"n", ".", "t", "x", "t">>,
      <<"d", ".", "p", "n", "g", "/", "a", ".", "j", "p", "g">> }

\* files that may lie in the output folder before the run, relative to it
DestPool ==
    { <<"t", ".", "j", "p", "g">>,
      <<"o", "l", "d", "/", "a", ".", "j", "p", "g">>,
      S_original \o <<"/", "a", ".", "j", "p", "g">>,
      <<"s", "_", "k", "/", "a", ".", "j", "p", "g">> }

\* style dicts that may be configured; a dict is a function from its keys
StylePool ==
    << [name |-> <<"S", " ", "k">>, prompt_text |-> "sketch", strength |-> 60, index |-> 0],
       [name |-> <<"s", "_", "k">>, prompt_text |-> "ink", strength |-> 30, index |-> 1],
       [name |-> <<"P">>, prompt_text |-> "paint", strength |-> 50, index |-> 2],
       [name |-> S_original, prompt_text |-> "copy", strength |-> 10, index |-> 3],
       [prompt_text |-> "unnamed", strength |-> 50, index |-> 4],
       [name |-> <<"Q">>, prompt_text |-> "test prompt"] >>

\* the chosen styles in configuration order
RECURSIVE Choose(_, _, _)
Choose(pool, sel, i) ==
    IF i > Len(pool) THEN <<>>
    ELSE (IF i \in sel THEN <<pool[i]>> ELSE <<>>) \o Choose(pool, sel, i + 1)

\* source and output folder as the run is given them
SourceDir(flow) == IF flow = "cli" THEN <<"s">> ELSE <<"s", "/">>

\* --output of the CLI: relative, absolute, absolute with a trailing slash
CliOutputDirs == { <<"o">>, <<"/", "r", "/", "o">>, <<"/", "r", "/", "o", "/">> }

\* output_folder of a request
HttpOutputDirs == { <<"o", "/">>, <<"o">> }

\* the CLI is given its output folder in argv, the HTTP function reads it
\* from the request
OutputArgs(flow) == IF flow = "cli" THEN CliOutputDirs ELSE { <<>> }

\* provider of config.yaml, in lower case
Providers == {"azure", "stability", "dalle"}

\* where a pool entry lies in the store
SourceFile(flow, rel) ==
    IF flow = "cli" THEN Cwd \o <<"/", "s", "/">> \o rel ELSE <<"s", "/">> \o rel

DestFile(flow, rel) ==
    IF flow = "cli" THEN Cwd \o <<"/", "o", "/">> \o rel ELSE <<"o", "/">> \o rel

SourceBytes(rel) == [kind |-> "source", of |-> rel, by |-> ""]

OldBytes(rel) == [kind |-> "old", of |-> rel, by |-> ""]

InitialStore(flow, src, dst) ==
    LET sfiles == {SourceFile(flow, r) : r \in src}
        dfiles == {DestFile(flow, r) : r \in dst}
        content(p) ==
            IF p \in sfiles
            THEN SourceBytes(CHOOSE r \in src : SourceFile(flow, r) = p)
            ELSE OldBytes(CHOOSE r \in dst : DestFile(flow, r) = p)
    IN  [files |-> [p \in sfiles \cup dfiles |-> content(p)],
         dirs |-> IF flow = "cli"
                  THEN {Cwd} \cup UNION {Ancestors(p) : p \in sfiles \cup dfiles}
                  ELSE {}]

(* ------------------------------- state -------------------------------- *)

VARIABLES
    input,           \* argv, and the configuration or request once it is read
    fs,              \* the store: filesystem (cli) or blob container (http)
    pc,              \* position of the run
    expected_state,  \* result of map_expected_state
    deleted,         \* result of clean_output (context.orphan_variants)
    tasks,           \* result of get_missing_files
    ti,              \* index of the next task of the loop
    steps,           \* RunContext.steps
    counts,          \* copy_count, success_count, fail_count of the CLI loop
    results,         \* results of the HTTP function
    run,             \* [critical, report, code]: how the run ends
    log,             \* history: the storage operations (mkdir, list, delete, read,
                     \* write) and backend calls of the run, in order
    dev,             \* deviations from the default outcome so far
    second,          \* result of a second reconciliation pass, or None
    env              \* the backend's credentials in os.environ: "set" or "unset",
                     \* "unread" until the first call of the generator reads them

vars ==
    << input, fs, pc, expected_state, deleted, tasks, ti, steps, counts, results,
       run, log, dev, second, env >>

Op(op, path, t) == [op |-> op, path |-> path, task |-> t]

Init ==
    \E flow \in {"cli", "http"} :
    \E src \in SUBSET SourcePool, dst \in SUBSET DestPool, out \in OutputArgs(flow) :
        /\ Cardinality(src) + Cardinality(dst) <= MaxEntries
        /\ input = [flow |-> flow, source_dir |-> SourceDir(flow), output_dir |-> out,
                    styles |-> <<>>, provider |-> "unread"]
        /\ fs = InitialStore(flow, src, dst)
        /\ pc = IF flow = "cli" THEN "load_config" ELSE "request"
        /\ expected_state = <<>>
        /\ deleted = <<>>
        /\ tasks = <<>>
        /\ ti = 1
        /\ steps = <<>>
        /\ counts = [copy |-> 0, success |-> 0, fail |-> 0]
        /\ results = [status |-> "completed", processed |-> <<>>, failed |-> <<>>,
                      skipped |-> <<>>]
        /\ run = [critical |-> FALSE, report |-> "none", code |-> "none"]
        /\ log = <<>>
        /\ dev = 0
        /\ second = None
        /\ env = "unread"

\* the styles a configuration or request may hold, given the entries of the store
StyleChoices(st) ==
    {Choose(StylePool, sel, 1) : sel \in
        {x \in SUBSET (1..Len(StylePool)) :
            Cardinality(x) + Cardinality(DOMAIN st.files) <= MaxEntries}}

(* ---------------------------- task execution -------------------------- *)

S_arrow == <<" ", "-", ">", " ">>

\* an add_step that ignores the error it is given
add_step_NoError(name, details, error) ==
    [step_name |-> name, status |-> "Success", details |-> details, error |-> error]

\* RunContext.add_step: an error that is None or empty gives status Success
add_step(name, details, error) ==
    [step_name |-> name, status |-> IF error = "" THEN "Success" ELSE "Failed",
     details |-> details, error |-> error]

\* what one iteration did: the store after it, the operations it performed,
\* the StepRecords it added, the counter it incremented, how the loop goes on,
\* and which of the environment's choices it consulted
Outcome(st, ops, recs, count, next, used) ==
    [st |-> st, ops |-> ops, steps |-> recs, count |-> count, next |-> next,
     used |-> used]

\* a copy that transforms the bytes it read before it writes them
CliOriginal_Transformed(st, t, task, read_ok, write_ok) ==
    LET rd == Op("read", task.source_item.path, t)
        wr == Op("write", task.full_target_path, t)
    IN  IF ~read_ok THEN Outcome(st, <<rd>>, <<>>, "fail", "continue", {"read"})
        ELSE IF ~write_ok
        THEN Outcome(st, <<rd, wr>>, <<>>, "fail", "continue", {"read", "write"})
        ELSE Outcome(WriteFile("cli", st, task.full_target_path,
                               Styled(ReadFile("cli", st, task.source_item.path), "copy")),
                     <<rd, wr>>, <<>>, "copy", "continue", {"read", "write"})

\* main.py, the is_original branch of the task loop
CliOriginal(st, t, task, read_ok, write_ok) ==
    LET rd == Op("read", task.source_item.path, t)
        wr == Op("write", task.full_target_path, t)
    IN  IF ~read_ok THEN Outcome(st, <<rd>>, <<>>, "fail", "continue", {"read"})
        ELSE IF ~write_ok
        THEN Outcome(st, <<rd, wr>>, <<>>, "fail", "continue", {"read", "write"})
        ELSE Outcome(WriteFile("cli", st, task.full_target_path,
                               ReadFile("cli", st, task.source_item.path)),
                     <<rd, wr>>, <<>>, "copy", "continue", {"read", "write"})

\* a styled branch that leaves a placeholder at the target when the generator
\* returns no data
CliStyled_Placeholder(st, t, task, provider, env_ok, read_ok, resp, write_ok) ==
    LET style == task.style
        rd == Op("read", task.source_item.path, t)
        gen == Op("generate", task.source_item.path, t)
        wr == Op("write", task.full_target_path, t)
        step_name == task.source_item.name \o S_arrow \o style.name
        caught == add_step(step_name, "Exception occurred", "exception")
        asked == IF env_ok THEN {"read", "env", "resp"} ELSE {"read", "env"}
    IN  IF "name" \notin DOMAIN style
        THEN Outcome(st, <<>>, <<>>, "none", "critical", {})
        ELSE IF ~read_ok
        THEN Outcome(st, <<rd>>, <<caught>>, "fail", "continue", {"read"})
        ELSE IF ~({"prompt_text", "strength"} \subseteq DOMAIN style)
        THEN Outcome(st, <<rd>>, <<caught>>, "fail", "continue", {"read"})
        ELSE LET result == process_image(provider, env_ok, resp)
                 logged == add_step(step_name, result.response_info,
                                    IF result.data THEN "" ELSE "API returned no data")
             IN  IF result.kind = "hang"
                 THEN Outcome(st, <<rd, gen>>, <<>>, "none", "hung", asked)
                 ELSE IF result.kind = "raise"
                 THEN Outcome(st, <<rd, gen>>, <<caught>>, "fail", "continue", asked)
                 ELSE IF ~result.data
                 THEN Outcome(WriteFile("cli", st, task.full_target_path,
                                 Styled(ReadFile("cli", st, task.source_item.path),
                                        "placeholder")),
                              <<rd, gen>>, <<logged>>, "fail", "continue", asked)
                 ELSE IF ~write_ok
                 THEN Outcome(st, <<rd, gen, wr>>, <<logged, caught>>, "fail",
                              "continue", asked \cup {"write"})
                 ELSE Outcome(WriteFile("cli", st, task.full_target_path,
                                 Styled(ReadFile("cli", st, task.source_item.path),
                                        style.prompt_text)),
                              <<rd, gen, wr>>, <<logged>>, "success", "continue",
                              asked \cup {"write"})

\* a styled branch that calls the generator a second time when it returned
\* no data
CliStyled_Retry(st, t, task, provider, env_ok, read_ok, resp, write_ok) ==
    LET style == task.style
        rd == Op("read", task.source_item.path, t)
        gen == Op("generate", task.source_item.path, t)
        wr == Op("write", task.full_target_path, t)
        step_name == task.source_item.name \o S_arrow \o style.name
        caught == add_step(step_name, "Exception occurred", "exception")
        asked == IF env_ok THEN {"read", "env", "resp"} ELSE {"read", "env"}
    IN  IF "name" \notin DOMAIN style
        THEN Outcome(st, <<>>, <<>>, "none", "critical", {})
        ELSE IF ~read_ok
        THEN Outcome(st, <<rd>>, <<caught>>, "fail", "continue", {"read"})
        ELSE IF ~({"prompt_text", "strength"} \subseteq DOMAIN style)
        THEN Outcome(st, <<rd>>, <<caught>>, "fail", "continue", {"read"})
        ELSE LET result == process_image(provider, env_ok, resp)
                 logged == add_step(step_name, result.response_info,
                                    IF result.data THEN "" ELSE "API returned no data")
             IN  IF result.kind = "hang"
                 THEN Outcome(st, <<rd, gen>>, <<>>, "none", "hung", asked)
                 ELSE IF result.kind = "raise"
                 THEN Outcome(st, <<rd, gen>>, <<caught>>, "fail", "continue", asked)
                 ELSE IF ~result.data
                 THEN Outcome(st, <<rd, gen, gen>>, <<logged>>, "fail", "continue", asked)
                 ELSE IF ~write_ok
                 THEN Outcome(st, <<rd, gen, wr>>, <<logged, caught>>, "fail",
                              "continue", asked \cup {"write"})
                 ELSE Outcome(WriteFile("cli", st, task.full_target_path,
                                 Styled(ReadFile("cli", st, task.source_item.path),
                                        style.prompt_text)),
                              <<rd, gen, wr>>, <<logged>>, "success", "continue",
                              asked \cup {"write"})

\* main.py, the styled branch of the task loop
CliStyled(st, t, task, provider, env_ok, read_ok, resp, write_ok) ==
    LET style == task.style
        rd == Op("read", task.source_item.path, t)
        gen == Op("generate", task.source_item.path, t)
        wr == Op("write", task.full_target_path, t)
        step_name == task.source_item.name \o S_arrow \o style.name
        caught == add_step(step_name, "Exception occurred", "exception")
        asked == IF env_ok THEN {"read", "env", "resp"} ELSE {"read", "env"}
    IN  IF "name" \notin DOMAIN style
        THEN Outcome(st, <<>>, <<>>, "none", "critical", {})
        ELSE IF ~read_ok
        THEN Outcome(st, <<rd>>, <<caught>>, "fail", "continue", {"read"})
        ELSE IF ~({"prompt_text", "strength"} \subseteq DOMAIN style)
        THEN Outcome(st, <<rd>>, <<caught>>, "fail", "continue", {"read"})
        ELSE LET result == process_image(provider, env_ok, resp)
                 logged == add_step(step_name, result.response_info,
                                    IF result.data THEN "" ELSE "API returned no data")
             IN  IF result.kind = "hang"
                 THEN Outcome(st, <<rd, gen>>, <<>>, "none", "hung", asked)
                 ELSE IF result.kind = "raise"
                 THEN Outcome(st, <<rd, gen>>, <<caught>>, "fail", "continue", asked)
                 ELSE IF ~result.data
                 THEN Outcome(st, <<rd, gen>>, <<logged>>, "fail", "continue", asked)
                 ELSE IF ~write_ok
                 THEN Outcome(st, <<rd, gen, wr>>, <<logged, caught>>, "fail",
                              "continue", asked \cup {"write"})
                 ELSE Outcome(WriteFile("cli", st, task.full_target_path,
                                 Styled(ReadFile("cli", st, task.source_item.path),
                                        style.prompt_text)),
                              <<rd, gen, wr>>, <<logged>>, "success", "continue",
                              asked \cup {"write"})

CliIteration(st, t, task, provider, env_ok, read_ok, resp, write_ok) ==
    IF task.is_original THEN CliOriginal(st, t, task, read_ok, write_ok)
    ELSE CliStyled(st, t, task, provider, env_ok, read_ok, resp, write_ok)

\* function_app.py, one iteration of the task loop: everything is inside the try
HttpIteration(st, t, task, env_ok, read_ok, resp, write_ok) ==
    LET rd == Op("read", task.source_item.path, t)
        gen == Op("generate", task.source_item.path, t)
        wr == Op("write", task.full_target_path, t)
        asked == IF env_ok THEN {"read", "env", "resp"} ELSE {"read", "env"}
    IN  IF ~read_ok THEN Outcome(st, <<rd>>, <<>>, "failed", "continue", {"read"})
        ELSE IF task.is_original
        THEN IF ~write_ok
             THEN Outcome(st, <<rd, wr>>, <<>>, "failed", "continue", {"read", "write"})
             ELSE Outcome(WriteFile("http", st, task.full_target_path,
                                    ReadFile("http", st, task.source_item.path)),
                          <<rd, wr>>, <<>>, "copied", "continue", {"read", "write"})
        ELSE IF ~({"prompt_text", "strength"} \subseteq DOMAIN task.style)
        THEN Outcome(st, <<rd>>, <<>>, "failed", "continue", {"read"})
        ELSE LET result == process_image_azure(env_ok, resp)
             IN  IF result.kind = "hang"
                 THEN Outcome(st, <<rd, gen>>, <<>>, "none", "hung", asked)
                 ELSE IF ~result.data
                 THEN Outcome(st, <<rd, gen>>, <<>>, "failed", "continue", asked)
                 ELSE IF ~write_ok
                 THEN Outcome(st, <<rd, gen, wr>>, <<>>, "failed", "continue",
                              asked \cup {"write"})
                 ELSE Outcome(WriteFile("http", st, task.full_target_path,
                                 Styled(ReadFile("http", st, task.source_item.path),
                                        task.style.prompt_text)),
                              <<rd, gen, wr>>, <<>>, "processed", "continue",
                              asked \cup {"write"})

\* the environment's choices for one iteration: each deviation from the
\* default is counted, and a choice the iteration does not consult is default
EnvChoices == IF env = "unread" THEN {"set", "unset"} ELSE {env}

Cost(e, read_ok, resp, write_ok) ==
    (IF env = "unread" /\ e = "unset" THEN 1 ELSE 0) + (IF read_ok THEN 0 ELSE 1)
    + (IF resp = "image" THEN 0 ELSE 1) + (IF write_ok THEN 0 ELSE 1)

Consulted(used, e, read_ok, resp, write_ok) ==
    /\ "env" \in used \/ e = (IF env = "unread" THEN "set" ELSE env)
    /\ "read" \in used \/ read_ok
    /\ "resp" \in used \/ resp = "image"
    /\ "write" \in used \/ write_ok

(* ------------------------------ the CLI run --------------------------- *)

\* an exception inside the try of main.py (Critical Error, then the finally),
\* or inside the try of the HTTP function (status failed, then the response)
Critical ==
    IF input.flow = "cli"
    THEN /\ run' = [run EXCEPT !.critical = TRUE]
         /\ pc' = "report"
         /\ UNCHANGED results
    ELSE /\ results' = [results EXCEPT !.status = "failed"]
         /\ run' = [run EXCEPT !.critical = TRUE]
         /\ pc' = "respond"

\* main.py 80-84: load_config, sys.exit(1) when it raises
LoadConfig ==
    /\ pc = "load_config"
    /\ \/ /\ pc' = "exited"
          /\ run' = [run EXCEPT !.code = "exit 1"]
          /\ UNCHANGED input
       \/ \E styles \in StyleChoices(fs), provider \in Providers :
             /\ input' = [input EXCEPT !.styles = styles, !.provider = provider]
             /\ pc' = "get_generator"
             /\ UNCHANGED run
    /\ UNCHANGED << fs, expected_state, deleted, tasks, ti, steps, counts,
                    results, log, dev, second, env >>

\* main.py 121-125: get_generator, sys.exit(1) on an unknown provider
GetGenerator ==
    /\ pc = "get_generator"
    /\ IF input.provider \in KnownProviders THEN pc' = "mkdir" /\ UNCHANGED run
       ELSE pc' = "exited" /\ run' = [run EXCEPT !.code = "exit 1"]
    /\ UNCHANGED << input, fs, expected_state, deleted, tasks, ti, steps, counts,
                    results, log, dev, second, env >>

\* main.py 128: output_provider.mkdir(output_path), outside every try
Mkdir ==
    /\ pc = "mkdir"
    /\ log' = Append(log, Op("mkdir", input.output_dir, 0))
    /\ \E ok \in BOOLEAN :
          IF ok THEN /\ fs' = LocalMkdir(fs, input.output_dir)
                     /\ pc' = "map"
                     /\ UNCHANGED run
          ELSE /\ pc' = "crashed"
               /\ run' = [run EXCEPT !.code = "traceback"]
               /\ UNCHANGED fs
    /\ UNCHANGED << input, expected_state, deleted, tasks, ti, steps, counts,
                    results, dev, second, env >>

\* Step A of both flows; the listing may raise an I/O error
MapExpectedState ==
    /\ pc = "map"
    /\ log' = Append(log, Op("list", input.source_dir, 0))
    /\ \E ok \in BOOLEAN :
          /\ ok \/ dev < MaxDeviations
          /\ dev' = IF ok THEN dev ELSE dev + 1
          /\ IF ok /\ ~MapRaises(input.flow, fs, input.source_dir, input.styles)
             THEN /\ expected_state' =
                        map_expected_state(input.flow, fs, input.source_dir, input.styles)
                  /\ pc' = IF input.flow = "cli" THEN "clean" ELSE "missing"
                  /\ UNCHANGED << run, results >>
             ELSE /\ Critical
                  /\ UNCHANGED expected_state
    /\ UNCHANGED << input, fs, deleted, tasks, ti, steps, counts, second, env >>

DeleteOps(paths) == [i \in 1..Len(paths) |-> Op("delete", paths[i], 0)]

\* a cleanup that is put off until the tasks have run
CleanOutput_AfterTasks ==
    /\ \/ /\ pc = "clean"
          /\ pc' = "missing"
          /\ UNCHANGED << fs, deleted, log >>
       \/ /\ pc = "report" /\ ~run.critical
          /\ \A i \in 1..Len(log) : log[i].op # "delete"
          /\ Orphans(fs, expected_state, input.output_dir) # {}
          /\ LET r == clean_output(fs, expected_state, input.output_dir, {})
             IN  /\ fs' = r.st
                 /\ deleted' = r.deleted
          /\ log' = Append(log, Op("list", input.output_dir, 0))
                      \o DeleteOps(Sorted(Orphans(fs, expected_state, input.output_dir)))
          /\ pc' = "report"
    /\ UNCHANGED << input, expected_state, tasks, ti, steps, counts, second, env,
                    run, results, dev >>

\* Step B of main.py; the listing may raise an I/O error, and delete_file
\* raises for the orphans in failing
CleanOutput ==
    /\ pc = "clean"
    /\ \E ok \in BOOLEAN :
          IF ok
          THEN \E failing \in SUBSET Orphans(fs, expected_state, input.output_dir) :
               LET r == clean_output(fs, expected_state, input.output_dir, failing)
               IN  /\ dev + Cardinality(failing) <= MaxDeviations
                   /\ dev' = dev + Cardinality(failing)
                   /\ fs' = r.st
                   /\ deleted' = r.deleted
                   /\ pc' = "missing"
                   /\ UNCHANGED << run, results >>
          ELSE /\ dev < MaxDeviations
               /\ dev' = dev + 1
               /\ Critical
               /\ UNCHANGED << fs, deleted >>
    /\ log' = Append(log, Op("list", input.output_dir, 0))
                \o (IF pc' = "missing"
                    THEN DeleteOps(Sorted(Orphans(fs, expected_state, input.output_dir)))
                    ELSE <<>>)
    /\ UNCHANGED << input, expected_state, tasks, ti, steps, counts, second, env >>

\* Step C of both flows; an existence check may raise an I/O error
GetMissingFiles ==
    /\ pc = "missing"
    /\ \E ok \in BOOLEAN :
          IF ok
          THEN /\ tasks' = get_missing_files(input.flow, fs, expected_state,
                                             input.output_dir)
               /\ ti' = 1
               /\ pc' = "tasks"
               /\ UNCHANGED << run, results, dev >>
          ELSE /\ dev < MaxDeviations
               /\ dev' = dev + 1
               /\ Critical
               /\ UNCHANGED << tasks, ti >>
    /\ UNCHANGED << input, fs, expected_state, deleted, steps, counts, log, second, env >>

Bump(c, what) ==
    IF what \in DOMAIN c THEN [c EXCEPT ![what] = c[what] + 1] ELSE c

\* one iteration of the task loop of main.py
CliTask ==
    /\ pc = "tasks" /\ input.flow = "cli" /\ ti <= Len(tasks)
    /\ \E e \in EnvChoices, read_ok \in BOOLEAN, resp \in Responses(input.provider),
          write_ok \in BOOLEAN :
          /\ dev + Cost(e, read_ok, resp, write_ok) <= MaxDeviations
          /\ LET o == CliIteration(fs, ti, tasks[ti], input.provider, e = "set",
                                   read_ok, resp, write_ok)
             IN  /\ Consulted(o.used, e, read_ok, resp, write_ok)
                 /\ dev' = dev + Cost(e, read_ok, resp, write_ok)
                 /\ env' = IF "env" \in o.used THEN e ELSE env
                 /\ fs' = o.st
                 /\ log' = log \o o.ops
                 /\ steps' = steps \o o.steps
                 /\ counts' = Bump(counts, o.count)
                 /\ IF o.next = "critical" THEN Critical /\ UNCHANGED ti
                    ELSE /\ pc' = IF o.next = "hung" THEN "hung" ELSE "tasks"
                         /\ ti' = IF o.next = "hung" THEN ti ELSE ti + 1
                         /\ UNCHANGED << run, results >>
    /\ UNCHANGED << input, expected_state, deleted, tasks, second >>

\* the loop of main.py is over (or there were no tasks): on to the finally
CliLoopEnd ==
    /\ pc = "tasks" /\ input.flow = "cli" /\ ti > Len(tasks)
    /\ pc' = "report"
    /\ UNCHANGED << input, fs, expected_state, deleted, tasks, ti, steps, counts,
                    results, run, log, dev, second, env >>

\* main.py 255-272, the finally: the report is generated and saved; a failure
\* to save it is caught and printed, and the run ends either way
Report ==
    /\ pc = "report"
    /\ run' = [run EXCEPT !.report = "attempted", !.code = "exit 0"]
    /\ pc' = "done"
    /\ UNCHANGED << input, fs, expected_state, deleted, tasks, ti, steps, counts,
                    results, log, dev, second, env >>

(* --------------------------- the HTTP function ------------------------ *)

\* function_app.py 146-165: the request is parsed and checked
Request_ ==
    /\ pc = "request"
    /\ \/ /\ pc' = "done"
          /\ run' = [run EXCEPT !.code = "400"]
          /\ UNCHANGED input
       \/ \E styles \in StyleChoices(fs), out \in HttpOutputDirs, storage_ok \in BOOLEAN :
             /\ storage_ok \/ styles # <<>>
             /\ input' = [input EXCEPT !.styles = styles, !.output_dir = out,
                                       !.provider = "azure"]
             /\ IF styles = <<>>
                THEN pc' = "done" /\ run' = [run EXCEPT !.code = "400"]
                ELSE IF ~storage_ok
                THEN pc' = "done" /\ run' = [run EXCEPT !.code = "500"]
                ELSE pc' = "map" /\ UNCHANGED run
    /\ UNCHANGED << fs, expected_state, deleted, tasks, ti, steps, counts,
                    results, log, dev, second, env >>

Record(r, o, task) ==
    CASE o.count = "copied" ->
            [r EXCEPT !.processed = Append(@, OriginalKey(task.source_item))]
      [] o.count = "processed" -> [r EXCEPT !.processed = Append(@, task.output_path)]
      [] o.count = "failed" -> [r EXCEPT !.failed = Append(@, task.output_path)]
      [] OTHER -> r

\* one iteration of the task loop of function_app.main
HttpTask ==
    /\ pc = "tasks" /\ input.flow = "http" /\ ti <= Len(tasks)
    /\ \E e \in EnvChoices, read_ok \in BOOLEAN, resp \in AzureResponses,
          write_ok \in BOOLEAN :
          /\ dev + Cost(e, read_ok, resp, write_ok) <= MaxDeviations
          /\ LET o == HttpIteration(fs, ti, tasks[ti], e = "set", read_ok, resp, write_ok)
             IN  /\ Consulted(o.used, e, read_ok, resp, write_ok)
                 /\ dev' = dev + Cost(e, read_ok, resp, write_ok)
                 /\ env' = IF "env" \in o.used THEN e ELSE env
                 /\ fs' = o.st
                 /\ log' = log \o o.ops
                 /\ results' = Record(results, o, tasks[ti])
                 /\ pc' = IF o.next = "hung" THEN "hung" ELSE "tasks"
                 /\ ti' = IF o.next = "hung" THEN ti ELSE ti + 1
    /\ UNCHANGED << input, expected_state, deleted, tasks, steps, counts, run, second >>

TaskKeys(ts) == {ts[i].output_path : i \in 1..Len(ts)}

\* function_app.py 200: skipped = the expected keys that are no task's output_path
HttpLoopEnd ==
    /\ pc = "tasks" /\ input.flow = "http" /\ ti > Len(tasks)
    /\ results' = [results EXCEPT !.skipped =
           LET ks == [i \in 1..Len(expected_state) |-> expected_state[i].key]
           IN  Filter(ks, Keys(expected_state) \ TaskKeys(tasks))]
    /\ pc' = "respond"
    /\ UNCHANGED << input, fs, expected_state, deleted, tasks, ti, steps, counts,
                    run, log, dev, second, env >>

\* function_app.py 207: 200 when completed, 500 when failed
Respond ==
    /\ pc = "respond"
    /\ run' = [run EXCEPT !.code = IF results.status = "completed" THEN "200" ELSE "500"]
    /\ pc' = "done"
    /\ UNCHANGED << input, fs, expected_state, deleted, tasks, ti, steps, counts,
                    results, log, dev, second, env >>

(* ----------------- StyleSyncFunction (the packaged function) ---------- *)

\* StyleSyncFunction.get_images: the blob listing of the prefix, filtered
get_images(st, source_dir) ==
    LET listing == BlobListFiles(st, source_dir)
    IN  Filter(listing, {it \in Range(listing) : IsValidImage(it)})

\* StyleSyncFunction.process_image_with_ai: the post has timeout=120, the
\* download of a result URL has timeout=60; every exception, and every answer
\* without an image, gives None
process_image_with_ai(env_ok, resp) ==
    IF ~env_ok THEN NoData("AZURE_ENDPOINT_URL or AZURE_API_KEY not configured")
    ELSE Request(TRUE, resp # "silent",
            CASE resp = "image" -> Data("")
              [] resp = "url_image" -> Data("")
              [] resp = "url_silent" -> Request(TRUE, FALSE, Data(""), NoData("timeout"))
              [] OTHER -> NoData(""),
            NoData("timeout"))

S_styled == <<"s", "t", "y", "l", "e", "d">>

\* style.get("name", "styled").replace(" ", "_").lower()
FnStyleFolder(style) ==
    Lower(Replace(IF "name" \in DOMAIN style THEN style.name ELSE S_styled, " ", "_"))

\* the outputs the loops of StyleSyncFunction.main go through for one image:
\* its original, then one variant per style, in style order
FnOutputsOf(image, styles, output_folder) ==
    << [source_item |-> image, style |-> None, is_original |-> TRUE,
        output_path |-> OriginalKey(image),
        full_target_path |-> TargetPath(output_folder, OriginalKey(image))] >>
    \o [i \in 1..Len(styles) |->
          [source_item |-> image, style |-> styles[i], is_original |-> FALSE,
           output_path |-> FnStyleFolder(styles[i]) \o <<"/">> \o image.name,
           full_target_path |->
               TargetPath(output_folder,
                          FnStyleFolder(styles[i]) \o <<"/">> \o image.name)]]

RECURSIVE FnOutputs(_, _, _)
FnOutputs(images, styles, output_folder) ==
    IF images = <<>> THEN <<>>
    ELSE FnOutputsOf(Head(images), styles, output_folder)
         \o FnOutputs(Tail(images), styles, output_folder)

\* style.get("prompt_text", "")
FnPrompt(style) == IF "prompt_text" \in DOMAIN style THEN style.prompt_text ELSE ""

\* StyleSyncFunction.main, what is done for one output: skipped when its
\* target exists, else copied or generated inside a try of its own
FnIteration(st, t, out, env_ok, read_ok, resp, write_ok) ==
    LET rd == Op("read", out.source_item.path, t)
        gen == Op("generate", out.source_item.path, t)
        wr == Op("write", out.full_target_path, t)
        asked == IF env_ok THEN {"read", "env", "resp"} ELSE {"read", "env"}
    IN  IF BlobExists(st, out.full_target_path)
        THEN Outcome(st, <<>>, <<>>, "skipped", "continue", {})
        ELSE IF ~read_ok THEN Outcome(st, <<rd>>, <<>>, "failed", "continue", {"read"})
        ELSE IF out.is_original
        THEN IF ~write_ok
             THEN Outcome(st, <<rd, wr>>, <<>>, "failed", "continue", {"read", "write"})
             ELSE Outcome(BlobWriteFile(st, out.full_target_path,
                                        st.files[out.source_item.path]),
                          <<rd, wr>>, <<>>, "copied", "continue", {"read", "write"})
        ELSE LET styled == process_image_with_ai(env_ok, resp)
             IN  IF ~styled.data
                 THEN Outcome(st, <<rd, gen>>, <<>>, "failed", "continue", asked)
                 ELSE IF ~write_ok
                 THEN Outcome(st, <<rd, gen, wr>>, <<>>, "failed", "continue",
                              asked \cup {"write"})
                 ELSE Outcome(BlobWriteFile(st, out.full_target_path,
                                 Styled(st.files[out.source_item.path],
                                        FnPrompt(out.style))),
                              <<rd, gen, wr>>, <<>>, "processed", "continue",
                              asked \cup {"write"})

\* the result lists of StyleSyncFunction.main: each names the output by
\* '<folder>/<image name>'
FnRecord(r, o, out) ==
    IF o.count \in {"processed", "copied", "failed", "skipped"}
    THEN [r EXCEPT ![o.count] = Append(@, out.output_path)]
    ELSE r

\* a request to the packaged function over a container
InitFn ==
    \E src \in SUBSET SourcePool, dst \in SUBSET DestPool :
        /\ Cardinality(src) + Cardinality(dst) <= MaxEntries
        /\ input = [flow |-> "function", source_dir |-> SourceDir("function"),
                    output_dir |-> <<>>, styles |-> <<>>, provider |-> "unread"]
        /\ fs = InitialStore("function", src, dst)
        /\ pc = "fn_request"
        /\ expected_state = <<>>
        /\ deleted = <<>>
        /\ tasks = <<>>
        /\ ti = 1
        /\ steps = <<>>
        /\ counts = [copy |-> 0, success |-> 0, fail |-> 0]
        /\ results = [status |-> "completed", processed |-> <<>>, copied |-> <<>>,
                      failed |-> <<>>, skipped |-> <<>>]
        /\ run = [critical |-> FALSE, report |-> "none", code |-> "none"]
        /\ log = <<>>
        /\ dev = 0
        /\ second = None
        /\ env = "unread"

\* StyleSyncFunction.main 124-155: the request is parsed and checked
FnRequest ==
    /\ pc = "fn_request"
    /\ \/ /\ pc' = "done"
          /\ run' = [run EXCEPT !.code = "400"]
          /\ UNCHANGED input
       \/ \E styles \in StyleChoices(fs), out \in HttpOutputDirs, storage_ok \in BOOLEAN :
             /\ storage_ok \/ styles # <<>>
             /\ input' = [input EXCEPT !.styles = styles, !.output_dir = out,
                                       !.provider = "azure"]
             /\ IF styles = <<>>
                THEN pc' = "done" /\ run' = [run EXCEPT !.code = "400"]
                ELSE IF ~storage_ok
                THEN pc' = "done" /\ run' = [run EXCEPT !.code = "500"]
                ELSE pc' = "fn_images" /\ UNCHANGED run
    /\ UNCHANGED << fs, expected_state, deleted, tasks, ti, steps, counts,
                    results, log, dev, second, env >>

\* StyleSyncFunction.main 169: the images are listed; a listing that raises is
\* caught by the outer except
FnGetImages ==
    /\ pc = "fn_images"
    /\ log' = Append(log, Op("list", input.source_dir, 0))
    /\ \E ok \in BOOLEAN :
          /\ ok \/ dev < MaxDeviations
          /\ dev' = IF ok THEN dev ELSE dev + 1
          /\ IF ok
             THEN /\ tasks' = FnOutputs(get_images(fs, input.source_dir), input.styles,
                                        input.output_dir)
                  /\ ti' = 1
                  /\ pc' = "fn_tasks"
                  /\ UNCHANGED << run, results >>
             ELSE /\ Critical
                  /\ UNCHANGED << tasks, ti >>
    /\ UNCHANGED << input, fs, expected_state, deleted, steps, counts, second, env >>

\* StyleSyncFunction.main 172-207, one output of the nested loops; an
\* existence check that raises is caught by the outer except
FnTask ==
    /\ pc = "fn_tasks" /\ ti <= Len(tasks)
    /\ \E exists_ok \in BOOLEAN, e \in EnvChoices, read_ok \in BOOLEAN,
          resp \in AzureResponses, write_ok \in BOOLEAN :
          IF ~exists_ok
          THEN /\ dev < MaxDeviations
               /\ dev' = dev + 1
               /\ e = (IF env = "unread" THEN "set" ELSE env)
               /\ read_ok /\ resp = "image" /\ write_ok
               /\ Critical
               /\ UNCHANGED << fs, log, ti, env >>
          ELSE /\ dev + Cost(e, read_ok, resp, write_ok) <= MaxDeviations
               /\ LET o == FnIteration(fs, ti, tasks[ti], e = "set", read_ok, resp, write_ok)
                  IN  /\ Consulted(o.used, e, read_ok, resp, write_ok)
                      /\ dev' = dev + Cost(e, read_ok, resp, write_ok)
                      /\ env' = IF "env" \in o.used THEN e ELSE env
                      /\ fs' = o.st
                      /\ log' = log \o o.ops
                      /\ results' = FnRecord(results, o, tasks[ti])
                      /\ ti' = ti + 1
                      /\ pc' = "fn_tasks"
                      /\ UNCHANGED run
    /\ UNCHANGED << input, expected_state, deleted, tasks, steps, counts, second >>

\* the loops of StyleSyncFunction.main are over
FnLoopEnd ==
    /\ pc = "fn_tasks" /\ ti > Len(tasks)
    /\ pc' = "respond"
    /\ UNCHANGED << input, fs, expected_state, deleted, tasks, ti, steps, counts,
                    results, run, log, dev, second, env >>

\* StyleSyncFunction.main 214-219: 200 when completed, 500 when failed
FnRespond ==
    /\ pc = "respond"
    /\ run' = [run EXCEPT !.code = IF results.status = "completed" THEN "200" ELSE "500"]
    /\ pc' = "done"
    /\ UNCHANGED << input, fs, expected_state, deleted, tasks, ti, steps, counts,
                    results, log, dev, second, env >>

NextFn == FnRequest \/ FnGetImages \/ FnTask \/ FnLoopEnd \/ FnRespond

FunctionSpec == InitFn /\ [][NextFn]_vars

(* ------------------- the two HTTP functions side by side --------------- *)

\* the paths an iteration wrote to
WritesOf(ops) ==
    LET w == SelectSeq(ops, LAMBDA o : o.op = "write")
    IN  [i \in 1..Len(w) |-> w[i].path]

\* function_app.main 181-198 over a task list, every read, generation and
\* write succeeding: the store it ends in and the writes it makes, in order
RECURSIVE AppLoop(_, _, _)
AppLoop(acc, ts, t) ==
    IF t > Len(ts) THEN acc
    ELSE LET o == HttpIteration(acc.st, t, ts[t], TRUE, TRUE, "image", TRUE)
         IN  AppLoop([st |-> o.st, writes |-> acc.writes \o WritesOf(o.ops)], ts, t + 1)

\* function_app.main 169-198: map, diff, execute; a KeyError of
\* map_expected_state ends the run before any write
AppRun(st, source_dir, output_folder, styles) ==
    IF MapRaises("http", st, source_dir, styles) THEN [st |-> st, writes |-> <<>>]
    ELSE AppLoop([st |-> st, writes |-> <<>>],
                 get_missing_files("http", st,
                     map_expected_state("http", st, source_dir, styles), output_folder),
                 1)

\* StyleSyncFunction.main 172-207 over its outputs, every read, generation
\* and write succeeding
RECURSIVE FnLoop(_, _, _)
FnLoop(acc, outs, t) ==
    IF t > Len(outs) THEN acc
    ELSE LET o == FnIteration(acc.st, t, outs[t], TRUE, TRUE, "image", TRUE)
         IN  FnLoop([st |-> o.st, writes |-> acc.writes \o WritesOf(o.ops)], outs, t + 1)

\* StyleSyncFunction.main 168-207: list the images, then loop
FnRun(st, source_dir, output_folder, styles) ==
    FnLoop([st |-> st, writes |-> <<>>],
           FnOutputs(get_images(st, source_dir), styles, output_folder), 1)

(* ------------------------ clean_output on its own --------------------- *)

\* files that may lie in the output folder when clean_output is called: those
\* of DestPool and more files directly in the folder
CleanPool ==
    DestPool \cup { <<"u", ".", "p", "n", "g">>, <<"v", ".", "t", "x", "t">> }

\* the styles of the expected state clean_output is given
CleanStyles == { <<>>, <<StylePool[3]>> }

\* clean_output is about to be called with the expected state of a source
\* folder and an output folder in some state
InitClean ==
    \E src \in SUBSET SourcePool, dst \in SUBSET CleanPool, out \in CliOutputDirs,
       styles \in CleanStyles :
        /\ Cardinality(src) + Cardinality(dst) <= MaxEntries
        /\ input = [flow |-> "cli", source_dir |-> SourceDir("cli"), output_dir |-> out,
                    styles |-> styles, provider |-> "azure"]
        /\ fs = InitialStore("cli", src, dst)
        /\ pc = "clean"
        /\ expected_state =
              map_expected_state("cli", InitialStore("cli", src, dst), SourceDir("cli"), styles)
        /\ deleted = <<>>
        /\ tasks = <<>>
        /\ ti = 1
        /\ steps = <<>>
        /\ counts = [copy |-> 0, success |-> 0, fail |-> 0]
        /\ results = [status |-> "completed", processed |-> <<>>, failed |-> <<>>,
                      skipped |-> <<>>]
        /\ run = [critical |-> FALSE, report |-> "none", code |-> "none"]
        /\ log = <<>>
        /\ dev = 0
        /\ second = None
        /\ env = "unread"

CleanSpec == InitClean /\ [][CleanOutput]_vars

(* --------------------------- OneDrive provider ------------------------ *)

S_drive_root == <<"/", "d", "r", "i", "v", "e", "/", "r", "o", "o", "t", ":">>

\* OneDriveStorageProvider._clean_path: the API prefix and the slashes at
\* both ends are removed
clean_path(path) ==
    LET p == IF StartsWith(path, S_drive_root)
             THEN SubSeq(path, Len(S_drive_root) + 1, Len(path))
             ELSE path
    IN  RStrip(LStrip(p, "/"), "/")

\* the item of the drive a path names; the drive's items are kept under their
\* path from the root, with a leading slash
DriveItem(path) == <<"/">> \o clean_path(path)

\* OneDriveStorageProvider.delete_file: DELETE on the item's URL; the service
\* answers 404 for an item that is not there, which returns, and removes an
\* item that is there, a folder with all it holds
OneDriveDeleteFile(st, path) ==
    LET t == DriveItem(path)
        below(p) == t \in Ancestors(p)
    IN  IF t \in st.dirs
        THEN [files |-> Without(st.files, {p \in DOMAIN st.files : below(p)}),
              dirs |-> {d \in st.dirs : d # t /\ ~below(d)}]
        ELSE IF t \in DOMAIN st.files
        THEN [st EXCEPT !.files = Without(st.files, {t})]
        ELSE st

(* ------------------------- delete_file on its own --------------------- *)

\* how many delete_file calls are applied to a store
MaxDeletes == 2

\* delete_file of a provider
Delete(provider, st, path) ==
    IF provider = "local" THEN LocalDeleteFile(st, path) ELSE OneDriveDeleteFile(st, path)

\* the place in the store that a provider takes a path to
Target(provider, path) ==
    IF provider = "local" THEN LocalResolve(path) ELSE DriveItem(path)

\* a drive that holds the source and output folders at its root
DriveStore(src, dst) ==
    LET sfiles == {<<"/", "s", "/">> \o r : r \in src}
        dfiles == {<<"/", "o", "/">> \o r : r \in dst}
        content(p) ==
            IF p \in sfiles
            THEN SourceBytes(CHOOSE r \in src : <<"/", "s", "/">> \o r = p)
            ELSE OldBytes(CHOOSE r \in dst : <<"/", "o", "/">> \o r = p)
    IN  [files |-> [p \in sfiles \cup dfiles |-> content(p)],
         dirs |-> UNION {Ancestors(p) : p \in sfiles \cup dfiles} \ {<<"/">>}]

\* paths delete_file may be given: files and folders of the output folder,
\* there or not, as the providers spell them
DeletePaths(provider) ==
    LET t == <<"t", ".", "j", "p", "g">>
        old == <<"o", "l", "d">>
        rels == {t, <<"u", ".", "p", "n", "g">>, old \o <<"/", "a", ".", "j", "p", "g">>,
                 old, S_original}
    IN  {<<"o", "/">> \o r : r \in rels}
        \cup (IF provider = "local"
              THEN {Cwd \o <<"/", "o", "/">> \o r : r \in {t, old}}
              ELSE {S_drive_root \o <<"/", "o", "/">> \o t, <<"o", "/">> \o old \o <<"/">>})

\* a provider over a store, before any delete_file
InitDelete ==
    \E provider \in {"local", "onedrive"}, src \in SUBSET SourcePool,
       dst \in SUBSET CleanPool :
        /\ Cardinality(src) + Cardinality(dst) <= MaxEntries
        /\ input = [flow |-> provider, source_dir |-> SourceDir("cli"),
                    output_dir |-> <<"o">>, styles |-> <<>>, provider |-> "unread"]
        /\ fs = IF provider = "local" THEN InitialStore("cli", src, dst)
                ELSE DriveStore(src, dst)
        /\ pc = "delete"
        /\ expected_state = <<>>
        /\ deleted = <<>>
        /\ tasks = <<>>
        /\ ti = 1
        /\ steps = <<>>
        /\ counts = [copy |-> 0, success |-> 0, fail |-> 0]
        /\ results = [status |-> "completed", processed |-> <<>>, failed |-> <<>>,
                      skipped |-> <<>>]
        /\ run = [critical |-> FALSE, report |-> "none", code |-> "none"]
        /\ log = <<>>
        /\ dev = 0
        /\ second = None
        /\ env = "unread"

\* one call of delete_file; deleted keeps the paths that named something
\* when they were deleted
DeleteStep ==
    /\ pc = "delete" /\ Len(log) < MaxDeletes
    /\ \E path \in DeletePaths(input.flow) :
          /\ fs' = Delete(input.flow, fs, path)
          /\ log' = Append(log, Op("delete", path, 0))
          /\ deleted' = IF Target(input.flow, path) \in (DOMAIN fs.files) \cup fs.dirs
                        THEN Append(deleted, path) ELSE deleted
    /\ UNCHANGED << input, pc, expected_state, tasks, ti, steps, counts, results,
                    run, dev, second, env >>

DeleteSpec == InitDelete /\ [][DeleteStep]_vars

(* ------------------------ list_files of OneDrive ---------------------- *)

\* the largest number of items the service puts on one page
MaxPageSize == 2

\* the children of a folder of the drive as the service reports them:
\* item['name'], 'folder' in item, and parentReference.path + '/' + name
DriveChildren(st, path) ==
    LET t == DriveItem(path)
        kids == {p \in ((DOMAIN st.files) \cup st.dirs) \ {<<"/">>} : Parent(p) = t}
        order == Sorted(kids)
        parent_path == IF t = <<"/">> THEN S_drive_root ELSE S_drive_root \o t
    IN  [i \in 1..Len(order) |->
            FileItem(BaseName(order[i]), order[i] \in st.dirs,
                     parent_path \o <<"/">> \o BaseName(order[i]))]

\* the service's answer for page k of a listing that it cuts into pages of
\* size items: the last page carries no @odata.nextLink
ChildrenPage(children, size, k) ==
    LET n == Len(children)
        to == IF k * size < n THEN k * size ELSE n
        value == SubSeq(children, (k - 1) * size + 1, to)
    IN  IF k * size < n THEN [value |-> value, nextLink |-> k + 1]
        ELSE [value |-> value]

\* a loop that takes every page for the last
NextLink_None(data) == 0

\* data.get("@odata.nextLink"): the page the link leads to, 0 for None
NextLink(data) == IF "nextLink" \in DOMAIN data THEN data.nextLink ELSE 0

\* the folder a path names is on the drive (the root always is)
FolderThere(st, path) == DriveItem(path) = <<"/">> \/ DriveItem(path) \in st.dirs

\* paths list_files may be given: the output folder in two spellings, the
\* root, and a folder that is not there
ListPaths == { <<"o">>, S_drive_root \o <<"/", "o", "/">>, <<"/">>, <<"x">> }

\* a provider over a drive, before list_files is iterated; second holds the
\* items the generator has yielded, ti the page its url leads to
InitListing ==
    \E src \in SUBSET SourcePool, dst \in SUBSET CleanPool, path \in ListPaths,
       size \in 1..MaxPageSize :
        /\ Cardinality(src) + Cardinality(dst) <= MaxEntries
        /\ input = [flow |-> "onedrive", source_dir |-> SourceDir("cli"),
                    output_dir |-> path, styles |-> <<>>, provider |-> "unread",
                    page_size |-> size]
        /\ fs = DriveStore(src, dst)
        /\ pc = "listing"
        /\ expected_state = <<>>
        /\ deleted = <<>>
        /\ tasks = <<>>
        /\ ti = 1
        /\ steps = <<>>
        /\ counts = [copy |-> 0, success |-> 0, fail |-> 0]
        /\ results = [status |-> "completed", processed |-> <<>>, failed |-> <<>>,
                      skipped |-> <<>>]
        /\ run = [critical |-> FALSE, report |-> "none", code |-> "none"]
        /\ log = <<>>
        /\ dev = 0
        /\ second = [yielded |-> <<>>]
        /\ env = "unread"

\* one round of the while loop of list_files: the GET of the url, then the
\* items of the page are yielded and the url becomes the page's link. The
\* service answers 404 for a folder that is not there; it may also answer 404
\* for a later page, answer with another error status (raise_for_status
\* raises), or not answer at all (the GET has no timeout).
ListPage ==
    /\ pc = "listing"
    /\ \E answer \in {"ok", "404", "error", "silent"} :
          LET natural == IF FolderThere(fs, input.output_dir) THEN "ok" ELSE "404"
              data == ChildrenPage(DriveChildren(fs, input.output_dir),
                                   input.page_size, ti)
          IN  /\ \/ answer = natural /\ dev' = dev
                 \/ /\ answer # natural /\ answer # "ok"
                    /\ dev < MaxDeviations /\ dev' = dev + 1
              /\ log' = Append(log, Op("get", input.output_dir, ti))
              /\ CASE answer = "404" -> pc' = "listed" /\ UNCHANGED << second, ti >>
                   [] answer = "error" -> pc' = "raised" /\ UNCHANGED << second, ti >>
                   [] answer = "silent" -> pc' = "hung" /\ UNCHANGED << second, ti >>
                   [] OTHER ->
                        /\ second' = [yielded |-> second.yielded \o data.value]
                        /\ IF NextLink(data) # 0
                           THEN pc' = "listing" /\ ti' = NextLink(data)
                           ELSE pc' = "listed" /\ UNCHANGED ti
    /\ UNCHANGED << input, fs, expected_state, deleted, tasks, steps, counts,
                    results, run, env >>

\* the loop takes its next round whenever it can
ListingSpec == InitListing /\ [][ListPage]_vars /\ WF_vars(ListPage)

(* ------------------------- a second reconciliation -------------------- *)

\* clean_output and get_missing_files run again over the store as it is,
\* against the same expected state: straight after the first pass, before any
\* task has run ("reconcile"), or after the run has ended ("run")
SecondPass ==
    /\ input.flow = "cli" /\ second = None /\ ~run.critical
    /\ \/ pc = "tasks" /\ ti = 1
       \/ pc = "done" /\ run.report # "none"
    /\ \E failing \in SUBSET Orphans(fs, expected_state, input.output_dir) :
          LET r == clean_output(fs, expected_state, input.output_dir, failing)
          IN  /\ dev + Cardinality(failing) <= MaxDeviations
              /\ dev' = dev + Cardinality(failing)
              /\ fs' = r.st
              /\ second' = [after |-> IF pc = "tasks" THEN "reconcile" ELSE "run",
                            deleted |-> r.deleted,
                            tasks |-> get_missing_files("cli", r.st, expected_state,
                                                        input.output_dir)]
    /\ pc' = "reconciled"
    /\ UNCHANGED << input, expected_state, deleted, tasks, ti, steps, counts,
                    results, run, log, env >>

Next ==
    \/ LoadConfig
    \/ GetGenerator
    \/ Mkdir
    \/ MapExpectedState
    \/ CleanOutput
    \/ GetMissingFiles
    \/ CliTask
    \/ CliLoopEnd
    \/ Report
    \/ Request_
    \/ HttpTask
    \/ HttpLoopEnd
    \/ Respond
    \/ SecondPass

Spec == Init /\ [][Next]_vars

(* ------------------------------ properties ---------------------------- *)

\* the output folder as the store names it, and the files below it at any
\* depth, each by its path relative to the folder
OutputRoot ==
    IF input.flow = "cli" THEN LocalResolve(input.output_dir)
    ELSE RStrip(input.output_dir, "/")

FilesUnderOutput(st) ==
    {SubSeq(p, Len(OutputRoot) + 2, Len(p)) :
        p \in {q \in DOMAIN st.files : StartsWith(q, OutputRoot \o <<"/">>)}}

\* every configured style carries all the fields the run reads
CompleteStyles ==
    \A i \in 1..Len(input.styles) :
        {"name", "prompt_text", "strength", "index"} \subseteq DOMAIN input.styles[i]

\* the run went through all its steps and every read, generation, write,
\* listing and deletion succeeded
CleanRun ==
    /\ pc = "done" /\ run.code \in {"exit 0", "200"}
    /\ ~run.critical /\ dev = 0 /\ CompleteStyles

\* C1 (as claimed): after a full run in which everything succeeds, the files
\* under the output folder are exactly the expected keys, whatever lay there
\* before the run.
C1_Convergence == CleanRun => FilesUnderOutput(fs) = Keys(expected_state)

\* clean_output of main.py has returned and no delete_file failed
Cleaned == pc = "missing" /\ input.flow = "cli" /\ dev = 0

DeletedPaths == {log[i].path : i \in {j \in 1..Len(log) : log[j].op = "delete"}}

\* C3 (as claimed): when clean_output returns, no file whose path relative to
\* output_dir is not an expected key is left anywhere under output_dir, and
\* the returned list names each deleted file once, by its path relative to
\* output_dir.
C3_OrphanDetection ==
    Cleaned =>
        /\ FilesUnderOutput(fs) \subseteq Keys(expected_state)
        /\ Len(deleted) = Cardinality(DeletedPaths)
        /\ \A i \in 1..Len(deleted) :
              /\ ~IsAbsolute(deleted[i])
              /\ LocalResolve(TargetPath(input.output_dir, deleted[i])) \in DeletedPaths
        /\ \A i, j \in 1..Len(deleted) : deleted[i] = deleted[j] => i = j

\* every delete_file of the first clean_output succeeded
FirstDeletesDone == Len(deleted) = Cardinality(DeletedPaths)

Planned == pc = "tasks" /\ ti = 1

\* the target of a key as the claim spells it
ClaimedTarget(k) == RStrip(input.output_dir, "/") \o <<"/">> \o k

TasksFor(k) == {i \in 1..Len(tasks) : tasks[i].output_path = k}

\* C4: get_missing_files emits exactly one task for every expected key whose
\* target (output_dir without trailing '/', then '/', then the key) does not
\* exist, with full_target_path equal to that target, no task for a key whose
\* target exists, and no task for anything else.
C4_MissingDetection ==
    Planned =>
        /\ \A k \in Keys(expected_state) :
              /\ Cardinality(TasksFor(k)) =
                    IF Exists(input.flow, fs, ClaimedTarget(k)) THEN 0 ELSE 1
              /\ \A i \in TasksFor(k) : tasks[i].full_target_path = ClaimedTarget(k)
        /\ \A i \in 1..Len(tasks) : tasks[i].output_path \in Keys(expected_state)

\* some expected keys are present already and others are missing, under an
\* output_dir written with a trailing slash
C4_Witness ==
    /\ Planned /\ tasks # <<>> /\ Len(tasks) < Len(expected_state)
    /\ EndsWith(input.output_dir, <<"/">>)

\* map_expected_state has returned; the source folder is as it listed it
Mapped == pc \in {"clean", "missing"}

Images == get_valid_images(input.flow, fs, input.source_dir)

EntriesOf(item, style) ==
    {i \in 1..Len(expected_state) :
        /\ expected_state[i].val.source_item = item
        /\ expected_state[i].val.style = style}

\* the shape the claim gives to the expected state of N images and S styles
Complete ==
    LET N == Len(Images)
        S == Len(input.styles)
        originals == {i \in 1..Len(expected_state) : expected_state[i].val.is_original}
        folders == {S_original} \cup {StyleFolder(input.styles[b]) : b \in 1..S}
    IN  /\ Len(expected_state) = N * (S + 1)
        /\ Cardinality(originals) = N
        /\ Cardinality((1..Len(expected_state)) \ originals) = N * S
        /\ \A a \in 1..N : \A b \in 1..S :
              /\ Cardinality(EntriesOf(Images[a], input.styles[b])) = 1
              /\ \A i \in EntriesOf(Images[a], input.styles[b]) :
                    ~expected_state[i].val.is_original
        /\ \A i, j \in 1..Len(expected_state) :
              expected_state[i].key = expected_state[j].key => i = j
        /\ \A i \in 1..Len(expected_state) :
              \E f \in folders : \E a \in 1..N :
                  expected_state[i].key = f \o <<"/">> \o Images[a].name

\* C5 (as claimed): for N valid images and S styles the expected state has
\* N*(S+1) entries, N originals and one variant per (image, style) pair, with
\* distinct keys of the form <folder>/<filename>.
C5_Completeness == Mapped => Complete

\* the styles normalise to pairwise different folders, none of them
\* 'original', and the valid images have pairwise different names
DistinctTargets ==
    /\ \A b, c \in 1..Len(input.styles) :
          StyleFolder(input.styles[b]) = StyleFolder(input.styles[c]) => b = c
    /\ \A b \in 1..Len(input.styles) : StyleFolder(input.styles[b]) # S_original
    /\ \A a, c \in 1..Len(Images) : Images[a].name = Images[c].name => a = c

\* C5 (amended): the same, when map_expected_state returns, the styles
\* normalise to pairwise different folder names other than 'original', and
\* no two valid images share a file name.
C5_CompletenessAmended == (Mapped /\ DistinctTargets) => Complete

\* two images and a style, or an image and two styles, all distinct
C5_Witness ==
    /\ Mapped /\ DistinctTargets /\ Len(input.styles) >= 1
    /\ Len(Images) + Len(input.styles) >= 3

\* what the history tells of task t: the operations it performed
Did(t, op) == \E i \in 1..Len(log) : log[i].task = t /\ log[i].op = op

Styled_(t) == ~tasks[t].is_original

\* the styled tasks whose generation was called and gave nothing to write
GenFailed == {t \in 1..Len(tasks) : Styled_(t) /\ Did(t, "generate") /\ ~Did(t, "write")}

\* the run is over, it had several tasks, generation was called for every
\* styled task and failed for exactly one, and that failure is the only thing
\* that went wrong
OneGenerationFailed ==
    /\ pc = "done" /\ Len(tasks) >= 2
    /\ Cardinality(GenFailed) = 1 /\ dev = 1
    /\ \A t \in 1..Len(tasks) : Styled_(t) => Did(t, "generate")

FailedSteps == {i \in 1..Len(steps) : steps[i].status = "Failed"}

Written(t) ==
    LET target == tasks[t].full_target_path
        source == ReadFile(input.flow, fs, tasks[t].source_item.path)
    IN  /\ Exists(input.flow, fs, target)
        /\ ReadFile(input.flow, fs, target) =
              IF Styled_(t) THEN Styled(source, tasks[t].style.prompt_text) ELSE source

\* C6: when generation fails for exactly one styled task and everything else
\* succeeds, the run still completes (no Critical Error and the report in the
\* CLI, status completed and 200 in the HTTP function), exactly one
\* StepRecord (CLI) or failed entry (HTTP) records the failure, and every
\* other task's output is at its target.
C6_FailureIsolation ==
    OneGenerationFailed =>
        /\ ~run.critical
        /\ IF input.flow = "cli"
           THEN run.code = "exit 0" /\ Cardinality(FailedSteps) = 1 /\ counts.fail = 1
           ELSE results.status = "completed" /\ run.code = "200"
                /\ Len(results.failed) = 1
        /\ \A t \in (1..Len(tasks)) \ GenFailed : Written(t)

\* a CLI run in which one generation failed and another styled task succeeded
C6_Witness ==
    /\ OneGenerationFailed /\ input.flow = "cli"
    /\ \E t \in 1..Len(tasks) : Styled_(t) /\ t \notin GenFailed

\* the task loop is over, one way or another
LoopLeft == pc \in {"report", "respond", "done"} /\ tasks # <<>>

\* C7 (as claimed): whatever fails while one task is processed, the loop goes
\* on to the end of the task list.
C7_NeverAborts == LoopLeft => ti = Len(tasks) + 1

\* the process has ended
Ended == pc \in {"done", "exited", "crashed", "reconciled"}

\* C8 (as claimed): a CLI run that has ended has attempted its report.
C8_ReportAlways == (Ended /\ input.flow = "cli") => run.report = "attempted"

\* C9 (as claimed): a run never waits for ever: until it has ended it can
\* always take its next step.
C9_NoHang == Ended \/ ENABLED Next

StorageOps == {"mkdir", "list", "delete", "read", "write"}

\* C10 (as claimed): when the CLI run finds the backend's endpoint or key
\* missing, it has performed no storage operation yet.
C10_FatalBeforeIO ==
    (input.flow = "cli" /\ env = "unset") =>
        \A i \in 1..Len(log) : log[i].op \notin StorageOps

\* positions of the history: the deletions of clean_output, and what the
\* tasks did
DeleteAt == {i \in 1..Len(log) : log[i].op = "delete"}

TaskAt == {i \in 1..Len(log) : log[i].task >= 1}

WrittenPaths ==
    {LocalResolve(log[i].path) : i \in {j \in 1..Len(log) : log[j].op = "write"}}

\* C11: in a CLI run every delete of clean_output comes before anything a
\* task does, no path a task writes is one that cleanup deleted, and the task
\* list is what get_missing_files finds in the store as cleanup left it.
C11_CleanupFirst ==
    input.flow = "cli" =>
        /\ \A i \in DeleteAt : \A j \in TaskAt : i < j
        /\ WrittenPaths \cap {LocalResolve(p) : p \in DeletedPaths} = {}
        /\ Planned => tasks = get_missing_files("cli", fs, expected_state,
                                                input.output_dir)

\* a finished CLI run that deleted an orphan and then wrote a target
C11_Witness ==
    /\ input.flow = "cli" /\ pc = "done"
    /\ DeleteAt # {} /\ WrittenPaths # {}

\* what executing task t does to a store when its read, generation and write
\* succeed
Effect(st, t) ==
    IF input.flow = "cli"
    THEN CliIteration(st, t, tasks[t], input.provider, TRUE, TRUE, "image", TRUE).st
    ELSE HttpIteration(st, t, tasks[t], TRUE, TRUE, "image", TRUE).st

\* the store after the tasks from..Len(tasks), executed in list order
RECURSIVE Sequential(_, _)
Sequential(st, from) ==
    IF from > Len(tasks) THEN st ELSE Sequential(Effect(st, from), from + 1)

\* the stores that executing the tasks of S, in every possible order, can end in
RECURSIVE FinalStores(_, _)
FinalStores(st, S) ==
    IF S = {} THEN {st}
    ELSE UNION {FinalStores(Effect(st, t), S \ {t}) : t \in S}

StorePath(path) == IF input.flow = "cli" THEN LocalResolve(path) ELSE path

RECURSIVE DeleteAll(_, _)
DeleteAll(st, D) ==
    IF D = {} THEN st
    ELSE LET p == CHOOSE q \in D : TRUE IN DeleteAll(DeleteFile(st, p), D \ {p})

\* the stores an existence check can see while clean_output is running: some
\* of the orphans are deleted, the others are not (yet, or their delete failed)
CleanStages == {DeleteAll(fs, D) : D \in SUBSET Orphans(fs, expected_state, input.output_dir)}

AtClean == input.flow = "cli" /\ pc = "clean"

\* C13: whatever clean_output has deleted so far when get_missing_files checks
\* a target, the check answers as it does after clean_output has finished, so
\* the task list is the same; get_missing_files writes nothing, so the listing
\* and the deleted list of clean_output are the same too.
C13_CleanAndMissingCommute ==
    AtClean =>
        \A mid \in CleanStages :
            /\ get_missing_files("cli", mid, expected_state, input.output_dir)
                 = get_missing_files("cli", clean_output(fs, expected_state, input.output_dir, {}).st,
                                     expected_state, input.output_dir)
            /\ \A i \in 1..Len(expected_state) :
                  LET target == TargetPath(input.output_dir, expected_state[i].key)
                  IN  LocalExists(mid, target) = LocalExists(fs, target)

\* clean_output has something to delete while a target exists
C13_Witness ==
    /\ AtClean
    /\ Orphans(fs, expected_state, input.output_dir) # {}
    /\ Len(get_missing_files("cli", fs, expected_state, input.output_dir))
         < Len(expected_state)

\* the listing of the source folder by the flow's provider
SourceListing == ListFiles(input.flow, fs, input.source_dir)

ImageSuffixes == {"jpg", "jpeg", "png", "webp"}

\* the text after the last dot of a name, or "" when the name has no dot
Suffix(name) ==
    LET dots == {i \in 1..Len(name) : name[i] = "."}
        last == CHOOSE i \in dots : \A j \in dots : j <= i
        ext == Lower(SubSeq(name, last + 1, Len(name)))
    IN  IF dots = {} THEN ""
        ELSE IF ext = <<"j", "p", "g">> THEN "jpg"
        ELSE IF ext = <<"j", "p", "e", "g">> THEN "jpeg"
        ELSE IF ext = <<"p", "n", "g">> THEN "png"
        ELSE IF ext = <<"w", "e", "b", "p">> THEN "webp"
        ELSE "other"

\* positions of the listing that hold an image file
ImagePositions ==
    {i \in 1..Len(SourceListing) :
        ~SourceListing[i].is_dir /\ Suffix(SourceListing[i].name) \in ImageSuffixes}

\* the k-th smallest element of a set of numbers
Nth(S, k) == CHOOSE i \in S : Cardinality({j \in S : j <= i}) = k

\* the source folder does not exist: no such path in the filesystem of the
\* CLI, no blob below the prefix in the container of the HTTP function
SourceFolderAbsent ==
    IF input.flow = "cli" THEN ~LocalExists(fs, input.source_dir)
    ELSE ~\E b \in DOMAIN fs.files : StartsWith(b, input.source_dir)

\* the source folder is about to be scanned, or has just been
Scanning == pc = "map" \/ Mapped

\* C14: get_valid_images yields the entries of the provider's listing that are
\* files with an image extension in any case, each once and in listing order,
\* and yields nothing when the source folder does not exist.
C14_ScannerFilter ==
    Scanning =>
        /\ Len(Images) = Cardinality(ImagePositions)
        /\ \A k \in 1..Len(Images) : Images[k] = SourceListing[Nth(ImagePositions, k)]
        /\ SourceFolderAbsent => Images = <<>>

\* the scan has kept an upper-case image and dropped other entries, one of
\* them a folder with an image name
C14_Witness ==
    /\ Mapped
    /\ \E k \in 1..Len(Images) : Images[k].name # Lower(Images[k].name)
    /\ \E i \in 1..Len(SourceListing) :
          SourceListing[i].is_dir /\ Suffix(SourceListing[i].name) \in ImageSuffixes
    /\ Len(Images) + 1 < Len(SourceListing)

\* the folder of a style name: every space an underscore, every letter in
\* lower case
Normalized(name) ==
    [i \in 1..Len(name) |-> IF name[i] = " " THEN "_" ELSE LowerChar(name[i])]

\* folder of the i-th configured style
FolderOf(i) ==
    Normalized(IF "name" \in DOMAIN input.styles[i] THEN input.styles[i].name
               ELSE S_style_ \o IntStr(input.styles[i].index))

\* the last configured style with the folder of the i-th
LastWithFolder(i) ==
    CHOOSE j \in 1..Len(input.styles) :
        /\ FolderOf(j) = FolderOf(i)
        /\ \A k \in 1..Len(input.styles) : FolderOf(k) = FolderOf(i) => k <= j

\* map_expected_state has just returned a map that is not empty
HasMap == Mapped /\ expected_state # <<>>

\* C15: the key of a variant is the normalized style name, a slash and the
\* image name; the expected map holds one entry for it, and the style of that
\* entry is the last configured style with that folder.
C15_FolderCollision ==
    HasMap =>
        \A n \in 1..Len(Images) : \A i \in 1..Len(input.styles) :
            LET key == FolderOf(i) \o <<"/">> \o Images[n].name
            IN  /\ Cardinality({k \in 1..Len(expected_state) : expected_state[k].key = key}) = 1
                /\ Lookup(expected_state, key).style = input.styles[LastWithFolder(i)]
                /\ Lookup(expected_state, key).output_path = key

\* two different styles with one folder have been mapped
C15_Witness ==
    /\ HasMap
    /\ \E i, j \in 1..Len(input.styles) :
          /\ i < j
          /\ input.styles[i] # input.styles[j]
          /\ FolderOf(i) = FolderOf(j)
          /\ StyleName(input.styles[i]) # StyleName(input.styles[j])

\* the run went through reconciliation and execution to its end, and nothing
\* the environment did failed: every listing, read, generation and write
\* succeeded
Executed ==
    /\ pc = "done" /\ run.code \in {"exit 0", "200", "500"} /\ dev = 0
    /\ \E i \in 1..Len(log) : log[i].op = "list" /\ log[i].path = input.source_dir

\* the destination was empty when the run began: nothing was deleted and
\* every file under the output folder was written by the run
EmptyDestination ==
    /\ deleted = <<>> /\ DeleteAt = {}
    /\ \A k \in FilesUnderOutput(fs) :
          \E i \in 1..Len(log) :
              /\ log[i].op = "write"
              /\ StorePath(log[i].path) = StorePath(OutputRoot \o <<"/">> \o k)

DistinctFolders ==
    \A b, c \in 1..Len(input.styles) :
        StyleFolder(input.styles[b]) = StyleFolder(input.styles[c]) => b = c

\* what the run reports: copied and generated files of the CLI summary, the
\* response lists of the HTTP function
Reported ==
    IF input.flow = "cli"
    THEN [processed |-> counts.copy + counts.success, failed |-> counts.fail, skipped |-> 0]
    ELSE [processed |-> Len(results.processed), failed |-> Len(results.failed),
          skipped |-> Len(results.skipped)]

\* C16 (as claimed): with an empty destination, N valid source images and S
\* styles with distinct normalized names, a run in which every generation
\* succeeds plans N*(S+1) tasks and reports N*(S+1) processed, no failed and
\* no skipped entries.
C16_EndToEndCounts ==
    (Executed /\ EmptyDestination /\ DistinctFolders) =>
        LET total == Len(Images) * (Len(input.styles) + 1)
        IN  /\ Len(tasks) = total
            /\ Reported = [processed |-> total, failed |-> 0, skipped |-> 0]

\* the packaged function has answered a request with one style, nothing the
\* environment did failed, and output t is a variant it generated and wrote
FnGenerated(t) ==
    /\ input.flow = "function" /\ pc = "done" /\ dev = 0
    /\ Len(input.styles) = 1
    /\ Styled_(t) /\ Did(t, "generate") /\ Written(t)

\* C17 (as claimed): for output_folder F, a style with folder G and an image X
\* without outputs, when generation succeeds the function answers 200 and its
\* 'processed' list contains 'F/G/X', the output folder included.
C17_ResultNaming ==
    \A t \in 1..Len(tasks) :
        FnGenerated(t) =>
            /\ run.code = "200"
            /\ \E i \in 1..Len(results.processed) :
                  results.processed[i] =
                      RStrip(input.output_dir, "/") \o <<"/">>
                        \o FnStyleFolder(tasks[t].style) \o <<"/">>
                        \o tasks[t].source_item.name

\* the tasks the loop of main.py has gone through so far
ExecutedTasks == 1..(ti - 1)

\* C18 (as claimed): RunContext.steps holds one StepRecord per executed task,
\* copies of originals and variants, successes and failures, in task order.
C18_EveryOutcomeRecorded ==
    (input.flow = "cli" /\ pc \in {"tasks", "report", "done"} /\ ~run.critical) =>
        /\ Len(steps) = Cardinality(ExecutedTasks)
        /\ \A t \in ExecutedTasks :
              /\ steps[t].status \in {"Success", "Failed"}
              /\ Styled_(t) =>
                    steps[t].step_name =
                        tasks[t].source_item.name \o S_arrow \o tasks[t].style.name

\* the sequence s without the elements of the set S
RECURSIVE Except(_, _)
Except(s, S) ==
    IF s = <<>> THEN <<>>
    ELSE (IF Head(s) \in S THEN <<>> ELSE <<Head(s)>>) \o Except(Tail(s), S)

\* C19: when delete_file raises for some orphan, clean_output goes on: the
\* orphans whose delete raised stay in the destination, every other orphan is
\* deleted, nothing else changes, and the returned list names the deleted
\* orphans, and only them, in listing order.
C19_DeleteIsolation ==
    [][ (pc = "clean" /\ pc' = "missing") =>
          LET orphans == Orphans(fs, expected_state, input.output_dir)
              kept == orphans \cap DOMAIN fs'.files
              gone == Except(Sorted(orphans), kept)
          IN  /\ Cardinality(kept) = dev' - dev
              /\ DOMAIN fs'.files = ((DOMAIN fs.files) \ orphans) \cup kept
              /\ \A p \in DOMAIN fs'.files : fs'.files[p] = fs.files[p]
              /\ fs'.dirs = fs.dirs
              /\ deleted' = [i \in 1..Len(gone) |->
                               RelPath(FileItem(BaseName(gone[i]), FALSE, gone[i]),
                                       input.output_dir)]
      ]_vars

\* clean_output has returned after a delete that raised, and an orphan listed
\* after the one that stayed has been deleted
C19_Witness ==
    /\ pc = "missing" /\ dev = 1 /\ deleted # <<>>
    /\ \E i, j \in DeleteAt :
          /\ i < j
          /\ log[i].path \in DOMAIN fs.files
          /\ log[j].path \notin DOMAIN fs.files

\* C20: a delete_file of an absent path leaves the store as it is; a second
\* delete_file of the same path changes nothing more; and a delete_file adds
\* nothing and removes nothing but the item the path names and, for a folder,
\* what lies below it.
C20_DeleteIdempotent ==
    [][ log' # log =>
          LET path == log'[Len(log')].path
              t == Target(input.flow, path)
              items(st) == (DOMAIN st.files) \cup st.dirs
          IN  /\ t \notin items(fs) => fs' = fs
              /\ Delete(input.flow, fs', path) = fs'
              /\ items(fs') \subseteq items(fs)
              /\ \A q \in items(fs) :
                    (q # t /\ t \notin Ancestors(q)) =>
                        /\ q \in DOMAIN fs.files => (q \in DOMAIN fs'.files
                                                      /\ fs'.files[q] = fs.files[q])
                        /\ q \in fs.dirs => q \in fs'.dirs
              /\ t \notin items(fs')
      ]_vars

\* a path has been deleted twice: the first call removed it while another
\* file lay beside it, the second found it absent
C20_Witness ==
    /\ pc = "delete" /\ Len(log) = 2
    /\ log[1].path = log[2].path
    /\ deleted = <<log[1].path>>
    /\ \E q \in DOMAIN fs.files :
          Parent(q) = Parent(Target(input.flow, log[1].path))

\* the output folder is not there
OutputAbsent(st) ==
    LET t == LocalResolve(input.output_dir)
    IN  t \notin st.dirs /\ t \notin DOMAIN st.files

\* C21: list_files of an absent path yields nothing, and clean_output called
\* for an output folder that does not exist returns an empty list and deletes
\* nothing.
C21_AbsentListing ==
    [][ (pc = "clean" /\ OutputAbsent(fs)) =>
          /\ LocalListFiles(fs, input.output_dir) = <<>>
          /\ pc' = "missing" =>
                /\ deleted' = <<>>
                /\ fs' = fs
                /\ \A i \in 1..Len(log') : log'[i].op # "delete"
      ]_vars

\* clean_output has returned for an output folder that is not there, beside
\* a source folder that holds files
C21_Witness ==
    /\ pc = "missing" /\ OutputAbsent(fs)
    /\ log # <<>> /\ log[Len(log)].op = "list"
    /\ DOMAIN fs.files # {}

\* the loop has gone through task ti in this step
TaskStep == pc = "tasks" /\ ti <= Len(tasks) /\ ti' = ti + 1

\* the step counted its task as a successful copy
Copied ==
    IF input.flow = "cli" THEN counts'.copy = counts.copy + 1
    ELSE Len(results'.processed) = Len(results.processed) + 1

\* C22: a task with is_original = true never calls the generator, and when it
\* succeeds the bytes at its target are the bytes of its source item.
C22_PureCopy ==
    [][ (TaskStep /\ tasks[ti].is_original) =>
          /\ \A i \in (Len(log) + 1)..Len(log') : log'[i].op # "generate"
          /\ env' = env
          /\ Copied =>
                /\ Exists(input.flow, fs', tasks[ti].full_target_path)
                /\ ReadFile(input.flow, fs', tasks[ti].full_target_path)
                     = ReadFile(input.flow, fs, tasks[ti].source_item.path)
                /\ ReadFile(input.flow, fs', tasks[ti].full_target_path).kind = "source"
      ]_vars

\* an original has been copied and a variant of the same run generated
C22_Witness ==
    /\ pc = "tasks"
    /\ \E t \in 1..(ti - 1) : tasks[t].is_original /\ Did(t, "write") /\ Written(t)
    /\ \E t \in 1..(ti - 1) : Styled_(t) /\ Did(t, "generate") /\ Written(t)

(* ----------------- clean_output with a caller's expected state -------- *)

\* keys a caller of clean_output may hold for files directly in the folder
FlatKeys == { <<"t", ".", "j", "p", "g">>, <<"u", ".", "p", "n", "g">> }

\* clean_output is about to be called with an expected state that also names
\* a file directly in the output folder (the function takes any dict and
\* looks only at its keys)
InitWanted ==
    \E src \in SUBSET SourcePool, dst \in SUBSET CleanPool, out \in CliOutputDirs,
       k \in FlatKeys :
        /\ Cardinality(src) + Cardinality(dst) <= MaxEntries
        /\ input = [flow |-> "cli", source_dir |-> SourceDir("cli"), output_dir |-> out,
                    styles |-> <<>>, provider |-> "azure"]
        /\ fs = InitialStore("cli", src, dst)
        /\ pc = "clean"
        /\ expected_state =
              DictSet(map_expected_state("cli", InitialStore("cli", src, dst),
                                         SourceDir("cli"), <<>>),
                      k, None)
        /\ deleted = <<>>
        /\ tasks = <<>>
        /\ ti = 1
        /\ steps = <<>>
        /\ counts = [copy |-> 0, success |-> 0, fail |-> 0]
        /\ results = [status |-> "completed", processed |-> <<>>, failed |-> <<>>,
                      skipped |-> <<>>]
        /\ run = [critical |-> FALSE, report |-> "none", code |-> "none"]
        /\ log = <<>>
        /\ dev = 0
        /\ second = None
        /\ env = "unread"

WantedSpec == InitWanted /\ [][CleanOutput]_vars

\* where the file of an expected key lies in the filesystem
WantedFile(k) == LocalResolve(OutputRoot \o <<"/">> \o k)

C23_Witness ==
    /\ pc = "missing" /\ deleted # <<>>
    /\ \E k \in Keys(expected_state) : WantedFile(k) \in DOMAIN fs.files

\* the expected keys that get_missing_files found present: those of no task
PresentKeys == Keys(expected_state) \ {tasks[t].output_path : t \in 1..Len(tasks)}

\* the place in the store of the target of an expected key
KeyFile(k) == StorePath(TargetPath(input.output_dir, k))

\* what a step adds to the log
NewOps == {log'[i] : i \in (Len(log) + 1)..Len(log')}

\* C24: when get_missing_files has run, the targets of its tasks are absent
\* and every other expected key is present; from then to the end of the run a
\* file at a present key is not written, overwritten or deleted, no generation
\* is called for it, and every write goes to the target of a task.
C24_ExistingUntouched ==
    [][ (pc = "tasks" /\ pc' # "reconciled") =>
          /\ Planned =>
                /\ \A t \in 1..Len(tasks) :
                      ~Exists(input.flow, fs, tasks[t].full_target_path)
                /\ \A k \in PresentKeys :
                      Exists(input.flow, fs, TargetPath(input.output_dir, k))
          /\ \A k \in PresentKeys :
                /\ KeyFile(k) \in DOMAIN fs.files =>
                      /\ KeyFile(k) \in DOMAIN fs'.files
                      /\ fs'.files[KeyFile(k)] = fs.files[KeyFile(k)]
                /\ \A o \in NewOps :
                      /\ o.op \in {"write", "delete"} => StorePath(o.path) # KeyFile(k)
                      /\ o.op = "generate" => tasks[o.task].output_path # k
          /\ \A o \in NewOps :
                o.op = "write" =>
                    \E t \in 1..Len(tasks) : tasks[t].full_target_path = o.path
      ]_vars

\* the loop is over, a task has written its target, and an output that was
\* there before the run is at its expected key
C24_Witness ==
    /\ pc = "tasks" /\ ti > Len(tasks)
    /\ \E t \in 1..Len(tasks) : Did(t, "write") /\ Written(t)
    /\ \E k \in PresentKeys : KeyFile(k) \in DOMAIN fs.files


\* the styled tasks that were executed and failed before any write
FailedStyled ==
    {t \in 1..Len(tasks) : t < ti /\ Styled_(t) /\ Did(t, "read") /\ ~Did(t, "write")}

\* C25: after a styled task has failed (its read failed, or the generator
\* raised or returned no data) nothing is at its target, the key is absent
\* from then on, and get_missing_files over the store emits a task for the key
\* again, as the reconciliation after the run does.
C25_FailedIsRetried ==
    (pc \in {"tasks", "report", "done", "reconciled"} /\ FailedStyled # {}) =>
        \A t \in FailedStyled :
            /\ ~Exists(input.flow, fs, tasks[t].full_target_path)
            /\ \E u \in DOMAIN get_missing_files(input.flow, fs, expected_state,
                                                 input.output_dir) :
                  get_missing_files(input.flow, fs, expected_state,
                                    input.output_dir)[u] = tasks[t]
            /\ (pc = "reconciled" /\ second.after = "run") =>
                  \E u \in DOMAIN second.tasks : second.tasks[u] = tasks[t]

\* a run in which the generator failed for a task and another task was
\* written has been followed by a second reconciliation
C25_Witness ==
    /\ pc = "reconciled" /\ second.after = "run"
    /\ \E t \in FailedStyled : Did(t, "generate")
    /\ \E t \in 1..Len(tasks) : Did(t, "write") /\ Written(t)
    /\ Len(second.tasks) < Len(tasks)

\* the response of an HTTP function that was not critically failed
Answered ==
    /\ input.flow \in {"http", "function"}
    /\ pc = "done" /\ run.code = "200"

\* the keys of the outputs a request is about: those of the expected state,
\* or in the per-image function those its loops go through
ExpectedKeys ==
    IF input.flow = "function" THEN TaskKeys(tasks) ELSE Keys(expected_state)

\* the result lists of the response
ResultLists ==
    IF input.flow = "function"
    THEN <<results.processed, results.failed, results.skipped, results.copied>>
    ELSE <<results.processed, results.failed, results.skipped>>

\* how often key k is named in the result lists
Occurrences(k) ==
    Cardinality({<<l, i>> \in (DOMAIN ResultLists) \X (1..MaxEntries * 4) :
                    i <= Len(ResultLists[l]) /\ ResultLists[l][i] = k})

\* C26: in the response of a run that is not critically failed every expected
\* key is named exactly once in the lists processed, failed, skipped (and
\* copied), the lists name nothing else, and in the map/diff/execute flow
\* skipped is the expected keys without the keys of the tasks.
C26_ResultPartition ==
    Answered =>
        /\ \A k \in ExpectedKeys : Occurrences(k) = 1
        /\ \A l \in DOMAIN ResultLists :
              \A i \in 1..Len(ResultLists[l]) : ResultLists[l][i] \in ExpectedKeys
        /\ input.flow = "http" =>
              /\ Range(results.skipped) = Keys(expected_state) \ TaskKeys(tasks)
              /\ Len(results.skipped) = Cardinality(Range(results.skipped))

\* the pages the service cuts the listing of the folder into
PageCount ==
    LET n == Len(DriveChildren(fs, input.output_dir))
    IN  IF n = 0 THEN 1 ELSE (n + input.page_size - 1) \div input.page_size

\* what list_files has yielded and requested is right so far: the items are
\* the first children of the folder, each once and in the order of the pages,
\* and no page was requested twice
ListedSoFar ==
    LET children == DriveChildren(fs, input.output_dir)
        yielded == second.yielded
    IN  /\ Len(yielded) <= Len(children)
        /\ yielded = SubSeq(children, 1, Len(yielded))
        /\ \A i, j \in 1..Len(yielded) : yielded[i] = yielded[j] => i = j
        /\ \A i \in 1..Len(log) : log[i] = Op("get", input.output_dir, i)
        /\ Len(log) <= PageCount

\* list_files has returned after answers that were all as the drive is: every
\* child was yielded and every page requested once, or the folder is not
\* there, one request was made and nothing was yielded
ListedAll ==
    (pc = "listed" /\ dev = 0) =>
        IF FolderThere(fs, input.output_dir)
        THEN /\ second.yielded = DriveChildren(fs, input.output_dir)
             /\ Len(log) = PageCount
        ELSE second.yielded = <<>> /\ Len(log) = 1

\* C27: list_files of the OneDrive provider follows the link of each page
\* until a page has none, yields every item of every page once and in page
\* order, ends after the last page, and yields nothing and does not raise
\* when the first request is answered 404.
C27_PaginatedListing ==
    /\ [](ListedSoFar /\ ListedAll)
    /\ [](pc # "raised" \/ dev > 0)
    /\ <>(pc # "listing")

\* a listing of three children has ended after more than one page
C27_Witness ==
    /\ pc = "listed" /\ dev = 0
    /\ Len(log) >= 2
    /\ Len(second.yielded) = 3

\* C28: whatever the styles, the expected state maps 'original/X' of every
\* valid image X to an entry with is_original = true and style = None, and
\* what a task writes at 'original/X' is the unmodified source.
C28_OriginalPlanned ==
    /\ Mapped =>
          \A a \in 1..Len(Images) :
              \E i \in 1..Len(expected_state) :
                  /\ expected_state[i].key = OriginalKey(Images[a])
                  /\ expected_state[i].val.is_original
                  /\ expected_state[i].val.style = None
    /\ pc = "tasks" =>
          \A t \in 1..Len(tasks) :
              (t < ti /\ Did(t, "write") /\ Written(t)
                 /\ tasks[t].output_path = OriginalKey(tasks[t].source_item)) =>
                  ReadFile(input.flow, fs, tasks[t].full_target_path)
                      = ReadFile(input.flow, fs, tasks[t].source_item.path)

\* every style of the request carries a name
AllNamed == \A i \in 1..Len(input.styles) : "name" \in DOMAIN input.styles[i]

\* C29: for the same container, output folder, generation outcomes and a list
\* of named styles, the per-image loop of StyleSyncFunction and the
\* map/diff/execute flow of function_app make the same writes in the same
\* order and end in the same store.
C29_FlowsEquivalent ==
    (pc = "fn_images" /\ AllNamed) =>
        FnRun(fs, input.source_dir, input.output_dir, input.styles)
            = AppRun(fs, input.source_dir, input.output_dir, input.styles)


\* how often task t performed op, by a history
AttemptsIn(l, t, op) == Cardinality({i \in 1..Len(l) : l[i].task = t /\ l[i].op = op})

Attempts(t, op) == AttemptsIn(log, t, op)

S_filter == "Blocked: Content Filter"

\* the records of content-filter rejections that a step adds
NewRejections ==
    {i \in (Len(steps) + 1)..Len(steps') : steps'[i].details = S_filter}

\* C30: within a run no task reads its source, calls the generator or writes
\* its target more than once, and a copy never calls the generator; a
\* content-filter rejection is a result without data whose text no other
\* outcome has, and the task it ends is recorded and counted as failed,
\* writes nothing, and is followed by the next task.
C30_NoRetry ==
    /\ [](pc = "tasks" =>
            \A t \in 1..Len(tasks) :
                /\ \A op \in {"read", "generate", "write"} : Attempts(t, op) <= 1
                /\ tasks[t].is_original => Attempts(t, "generate") = 0)
    /\ [](\A resp \in StabilityResponses :
            LET result == process_image("stability", TRUE, resp)
            IN  result.response_info = S_filter <=> resp = "filtered")
    /\ [][ (TaskStep /\ NewRejections # {}) =>
             /\ Cardinality(NewRejections) = 1
             /\ \A i \in NewRejections : steps'[i].status = "Failed"
             /\ counts' = [counts EXCEPT !.fail = @ + 1]
             /\ fs' = fs
             /\ pc' = "tasks"
             /\ AttemptsIn(log', ti, "generate") = 1 /\ AttemptsIn(log', ti, "write") = 0
         ]_vars

\* a task was rejected by the content filter and the next task was generated
\* and written
C30_Witness ==
    /\ pc = "tasks"
    /\ \E i \in 1..Len(steps) :
          /\ steps[i].details = S_filter /\ steps[i].status = "Failed"
          /\ i < Len(steps) /\ steps[i + 1].status = "Success"
    /\ counts.fail = 1 /\ counts.success >= 1
    /\ \E t \in 1..Len(tasks) : Did(t, "generate") /\ Did(t, "write") /\ Written(t)
====
